---- MODULE Spec2Model ----
(***************************************************************************)
(* Path-based authorization (subversion/libsvn_repos/authz.c).             *)
(*                                                                         *)
(* C strings are sequences of one-character strings, so that the code's    *)
(* character tests (name[0] == '~', strchr(name, ':'), next_segment's      *)
(* scan) are computed and not assumed.  A pointer is a sequence of length  *)
(* at most one: NULL is <<>> and a pointer to x is <<x>>.  Access rights   *)
(* (svn_repos_authz_access_t, a bit mask) are subsets of                   *)
(* {"read", "write", "recursive"}: | is \cup, & is \cap.                   *)
(***************************************************************************)
EXTENDS Integers, Sequences, FiniteSets, TLC

VARIABLES
  cfg,             \* the parsed rules document handed to the loader
  authz,           \* svn_authz_t *: NULL, or a pointer to [cfg |-> config]
  load_err,        \* error code of the last load, "SVN_NO_ERROR" if none
  query,           \* arguments of the last svn_repos_authz_check_access call
  root,            \* node_t *: the tree that call compiled (NULL: none)
  outcome,         \* how that call ended: "none", "granted", "denied", "abort"
  groups,          \* the parsed groups document (a pointer, NULL: there is none)
  load,            \* the last call of a loader and its arguments
  retrieved,       \* what the last svn_repos__retrieve_config call returned
  calls,           \* per thread: its svn_repos_authz_check_access call in progress
  iter             \* the call of an iteration driver in progress, or the last one

vars ==
  <<cfg, authz, load_err, query, root, outcome, groups, load, retrieved, calls,
    iter>>

(***************************************************************************)
(* Pointers and rights.                                                    *)
(***************************************************************************)
NULL == <<>>
Ptr(x) == <<x>>
Deref(p) == p[1]

svn_authz_none == {}
svn_authz_read == {"read"}
svn_authz_write == {"write"}
svn_authz_recursive == {"recursive"}

(***************************************************************************)
(* String helpers.                                                         *)
(***************************************************************************)
\* strchr(s, c) as the index of the first c in s, 0 when there is none.
strchr(s, c) ==
  IF \E i \in 1..Len(s) : s[i] = c
  THEN CHOOSE i \in 1..Len(s) : s[i] = c /\ \A j \in 1..(i-1) : s[j] # c
  ELSE 0

\* s + n: the string behind its first n characters.
StrFrom(s, n) == SubSeq(s, n + 1, Len(s))

IsSpace(c) == c = " "

RECURSIVE Trim(_)
Trim(s) ==
  IF s = <<>> THEN s
  ELSE IF IsSpace(Head(s)) THEN Trim(Tail(s))
  ELSE IF IsSpace(s[Len(s)]) THEN Trim(SubSeq(s, 1, Len(s) - 1))
  ELSE s

\* svn_cstring_split(input, sep, chop_whitespace): the tokens of input
\* between separators, in order; empty tokens are not returned.
RECURSIVE svn_cstring_split(_, _, _)
svn_cstring_split(input, sep, chop_whitespace) ==
  IF input = <<>> THEN <<>>
  ELSE LET n == strchr(input, sep)
           raw == IF n = 0 THEN input ELSE SubSeq(input, 1, n - 1)
           tok == IF chop_whitespace THEN Trim(raw) ELSE raw
           rest == IF n = 0 THEN <<>>
                   ELSE svn_cstring_split(StrFrom(input, n), sep,
                                          chop_whitespace)
       IN IF tok = <<>> THEN rest ELSE <<tok>> \o rest

(***************************************************************************)
(* The config object (svn_config_t): a sequence of sections               *)
(* [name, entries], entries a sequence of [name, value].  Section names    *)
(* are unique and so are the option names of one section.                  *)
(***************************************************************************)
svn_config_has_section(config, section) ==
  \E i \in 1..Len(config) : config[i].name = section

SectionEntries(config, section) ==
  IF svn_config_has_section(config, section)
  THEN (CHOOSE s \in {config[i] : i \in 1..Len(config)} :
          s.name = section).entries
  ELSE <<>>

\* svn_config_get(cfg, &value, section, option, NULL): NULL or the value.
svn_config_get(config, section, option) ==
  LET es == SectionEntries(config, section)
  IN IF \E i \in 1..Len(es) : es[i].name = option
     THEN Ptr((CHOOSE e \in {es[i] : i \in 1..Len(es)} :
                 e.name = option).value)
     ELSE NULL

\* svn_config_enumerate2(config, section, callback, baton): the baton after
\* callback(name, value, baton) ran on the entries in order, until one
\* returned keep = FALSE.  A callback returns [keep, baton].
svn_config_enumerate2(config, section, callback(_, _, _), baton) ==
  LET Step(prev, e) ==
        IF ~prev.keep THEN prev ELSE callback(e.name, e.value, prev.baton)
      Enumerate(es) ==
        LET run[i \in 0..Len(es)] ==
              IF i = 0 THEN [keep |-> TRUE, baton |-> baton]
              ELSE Step(run[i-1], es[i])
        IN run[Len(es)].baton
  IN Enumerate(SectionEntries(config, section))

\* svn_config_enumerate_sections2(config, callback, baton): the same over
\* the section names.
svn_config_enumerate_sections2(config, callback(_, _), baton) ==
  LET Step(prev, sec) ==
        IF ~prev.keep THEN prev ELSE callback(sec.name, prev.baton)
      run[i \in 0..Len(config)] ==
        IF i = 0 THEN [keep |-> TRUE, baton |-> baton]
        ELSE Step(run[i-1], config[i])
  IN run[Len(config)].baton

SECTION_GROUPS == <<"g", "r", "o", "u", "p", "s">>
SECTION_ALIASES == <<"a", "l", "i", "a", "s", "e", "s">>

STAR == <<"*">>
TOKEN_ANONYMOUS == <<"$", "a", "n", "o", "n", "y", "m", "o", "u", "s">>
TOKEN_AUTHENTICATED ==
  <<"$", "a", "u", "t", "h", "e", "n", "t", "i", "c", "a", "t", "e", "d">>

(***************************************************************************)
(* Users, aliases and groups.                                              *)
(***************************************************************************)
\* baton: [aliases, user]
add_alias(name, value, baton) ==
  [keep |-> TRUE,
   baton |-> IF baton.user = value
             THEN [baton EXCEPT !.aliases = @ \cup {<<"&">> \o name}]
             ELSE baton]

get_aliases(config, user) ==
  svn_config_enumerate2(config, SECTION_ALIASES, add_alias,
                        [aliases |-> {user}, user |-> user]).aliases

\* The membership test add_group applies to one member of a group.
IsRelevantMemberDirect(member, aliases) == member \in aliases
IsRelevantMember(member, aliases) ==
  member[1] = "@" \/ member \in aliases

\* baton: [memberships, aliases]; memberships maps a member name to the
\* sequence of decorated groups that list it.
add_group(name, value, baton) ==
  LET list == svn_cstring_split(value, ",", TRUE)
      decorated_name == <<"@">> \o name
      step[i \in 0..Len(list)] ==
        IF i = 0 THEN baton.memberships
        ELSE LET member == list[i]
                 m == step[i-1]
             IN IF IsRelevantMember(member, baton.aliases)
                THEN IF member \in DOMAIN m
                     THEN [m EXCEPT ![member] = Append(@, decorated_name)]
                     ELSE (member :> <<decorated_name>>) @@ m
                ELSE m
  IN [keep |-> TRUE,
      baton |-> [baton EXCEPT !.memberships = step[Len(list)]]]

get_group_memberships(config, aliases) ==
  svn_config_enumerate2(config, SECTION_GROUPS, add_group,
                        [memberships |-> <<>>, aliases |-> aliases]
                       ).memberships

\* A sequence holding the elements of a finite set once each (the order in
\* which apr_hash_first/apr_hash_next visit a hash).
RECURSIVE HashOrder(_)
HashOrder(S) ==
  IF S = {} THEN <<>>
  ELSE LET x == CHOOSE x \in S : TRUE IN <<x>> \o HashOrder(S \ {x})

\* The parent groups of name that the closure has not seen yet.
NewGroups(memberships, name, result) ==
  IF name \in DOMAIN memberships
  THEN LET next == memberships[name]
       IN SelectSeq(next, LAMBDA g : g \notin result)
  ELSE <<>>

\* "if (!svn_hash_gets(result, group))"
IsNewGroupAlways(group, result) == TRUE
IsNewGroup(group, result) == group \notin result

\* The loop "for (i = 0; i < to_follow->nelts; ++i)" from position i on:
\* [res, tf], the result and the array to_follow when the loop ends.
RECURSIVE FollowMemberships(_, _, _, _)
FollowMemberships(memberships, to_follow, i, result) ==
  IF i > Len(to_follow) THEN [res |-> result, tf |-> to_follow]
  ELSE LET \* a group listed twice in NEXT is added once
           Add(prev, group) ==
             IF ~IsNewGroup(group, prev.res) THEN prev
             ELSE [res |-> prev.res \cup {group},
                   tf |-> Append(prev.tf, group)]
           AddAll(new) ==
             LET add[k \in 0..Len(new)] ==
                   IF k = 0 THEN [res |-> result, tf |-> to_follow]
                   ELSE Add(add[k-1], new[k])
             IN add[Len(new)]
           Continue(added) ==
             FollowMemberships(memberships, added.tf, i + 1, added.res)
       IN Continue(AddAll(NewGroups(memberships, to_follow[i], result)))

get_memberships_star_only(config, user) ==
  IF user = NULL
  THEN {STAR}
  ELSE LET Closed(aliases) ==
             FollowMemberships(get_group_memberships(config, aliases),
                               HashOrder(aliases), 1, aliases).res
       IN Closed(get_aliases(config, Deref(user)))
            \cup {STAR, TOKEN_AUTHENTICATED}

\* user is a pointer: NULL for the anonymous user.
get_memberships(config, user) ==
  IF user = NULL
  THEN {STAR, TOKEN_ANONYMOUS}
  ELSE LET Closed(aliases) ==
             FollowMemberships(get_group_memberships(config, aliases),
                               HashOrder(aliases), 1, aliases).res
       IN Closed(get_aliases(config, Deref(user)))
            \cup {STAR, TOKEN_AUTHENTICATED}

\* The pool that holds the string of each key of the set get_memberships
\* returns, by the name of get_memberships' parameters: the user name is
\* the caller's string ("set_add_string(result, user)"), a decorated alias
\* is allocated in apr_hash_pool_get(baton->aliases), the pool of the
\* result, a decorated group name in apr_hash_pool_get(baton->memberships),
\* the pool get_group_memberships is handed as its result pool, which is
\* scratch_pool, and the tokens are string literals.  apr_hash_set stores
\* the pointer it is given and keeps the key of an entry it finds.
KeyPool(config, user, key) ==
  IF user = NULL THEN "static"
  ELSE IF key = Deref(user) THEN "caller"
  ELSE IF key \in get_aliases(config, Deref(user)) THEN "result_pool"
  ELSE IF key \in {STAR, TOKEN_AUTHENTICATED} THEN "static"
  ELSE "scratch_pool"

\* create_user_authz calls get_memberships(config, user, scratch_pool,
\* subpool) and then svn_pool_clear(subpool): the keys whose strings that
\* clears.
ClearedKeys(config, user) ==
  {key \in get_memberships(config, user) :
     KeyPool(config, user, key) = "scratch_pool"}

(***************************************************************************)
(* Constructing the prefix tree.  A node_t is                              *)
(* [segment, access, min_rights, max_rights, sub_nodes, alloc]; access is  *)
(* a pointer to an access_t [rights, pool]; sub_nodes maps a segment to    *)
(* its node and is the empty function where the code has a NULL hash (the  *)
(* code creates the hash only when it is about to add a sub-node).  A pool *)
(* is the name it has in create_user_authz: "result_pool", "scratch_pool"  *)
(* or "subpool".  alloc is [node, segment, sub_nodes, keys]: the pool of   *)
(* the node_t, of segment.data, of the sub_nodes hash (a pointer, NULL     *)
(* with the hash) and of the key string of each entry of that hash; pool   *)
(* is the pool of the access_t.                                            *)
(***************************************************************************)
\* The test of process_rule: the rule applies.
RuleAppliesNoInversion(inverted, is_member) == is_member
RuleApplies(inverted, is_member) == inverted = ~is_member

\* The rights a rule value grants.
ValueRights(value) ==
  (IF strchr(value, "r") # 0 THEN svn_authz_read ELSE svn_authz_none)
  \cup (IF strchr(value, "w") # 0 THEN svn_authz_write ELSE svn_authz_none)

\* baton: [memberships, found, access]
process_rule(name, value, baton) ==
  LET inverted == name # <<>> /\ name[1] = "~"
      key == IF inverted THEN Tail(name) ELSE name
  IN [keep |-> TRUE,
      baton |-> IF RuleApplies(inverted, key \in baton.memberships)
                THEN [baton EXCEPT !.found = TRUE,
                                   !.access = @ \cup ValueRights(value)]
                ELSE baton]

\* [found, access]: access is *ACCESS, written only when found.
has_matching_rule(config, section, memberships) ==
  LET Result(baton) == [found |-> baton.found, access |-> baton.access]
  IN Result(svn_config_enumerate2(config, section, process_rule,
              [memberships |-> memberships, found |-> FALSE,
               access |-> svn_authz_none]))

create_node_in_subpool(segment, result_pool) ==
  [segment |-> segment, access |-> NULL, min_rights |-> svn_authz_none,
   max_rights |-> svn_authz_none, sub_nodes |-> <<>>,
   alloc |-> [node |-> "subpool", segment |-> "subpool",
              sub_nodes |-> NULL, keys |-> <<>>]]

\* apr_pcalloc(result_pool, ...) and apr_pstrmemdup(result_pool, ...)
create_node(segment, result_pool) ==
  [segment |-> segment, access |-> NULL, min_rights |-> svn_authz_none,
   max_rights |-> svn_authz_none, sub_nodes |-> <<>>,
   alloc |-> [node |-> result_pool, segment |-> result_pool,
              sub_nodes |-> NULL, keys |-> <<>>]]

\* [node, assert_ok]: node after the insertion, and whether
\* assert(node->access == NULL) held at the end of the path.  segments is
\* the array without its terminating NULL.
\* The hash is made in result_pool when the node has none, and the key of
\* a new entry is sub_node->segment.data.
RECURSIVE insert_path(_, _, _, _)
insert_path(node, segments, access, result_pool) ==
  IF segments = <<>>
  THEN [node |-> [node EXCEPT !.access = access],
        assert_ok |-> node.access = NULL]
  ELSE LET segment == Head(segments)
           sub_node == IF segment \in DOMAIN node.sub_nodes
                       THEN node.sub_nodes[segment]
                       ELSE create_node(segment, result_pool)
           Link(r) ==
             [node |->
                [node EXCEPT
                   !.sub_nodes = (segment :> r.node) @@ @,
                   !.alloc.sub_nodes =
                     IF @ = NULL THEN Ptr(result_pool) ELSE @,
                   !.alloc.keys = @ @@ (segment :> sub_node.alloc.segment)],
              assert_ok |-> r.assert_ok]
       IN Link(insert_path(sub_node, Tail(segments), access, result_pool))

\* Is the section NAME relevant to REPOSITORY?  colon_pos is strchr's
\* index (0: no colon).
SectionIsRelevantPrefix(name, colon_pos, repository) ==
  colon_pos = 0 \/ SubSeq(name, 1, Len(repository)) = repository
SectionIsRelevantAlways(name, colon_pos, repository) == TRUE
SectionIsRelevant(name, colon_pos, repository) ==
  colon_pos = 0
  \/ (colon_pos - 1 = Len(repository)
      /\ SubSeq(name, 1, Len(repository)) = repository)

\* baton: [config, repository, memberships, root, pool, ndebug, aborted].
\* A failed assert ends the process unless the build defines NDEBUG; the
\* enumeration then ends with aborted set.
process_path_rule(name, baton) ==
  LET Skip == [keep |-> TRUE, baton |-> baton]
      Inserted(r) ==
        IF r.assert_ok \/ baton.ndebug
        THEN [keep |-> TRUE, baton |-> [baton EXCEPT !.root = r.node]]
        ELSE [keep |-> FALSE, baton |-> [baton EXCEPT !.aborted = TRUE]]
      Matched(path, match) ==
        IF ~match.found THEN Skip
        ELSE Inserted(insert_path(baton.root,
                                  svn_cstring_split(path, "/", FALSE),
                                  Ptr([rights |-> match.access,
                                       pool |-> baton.pool]),
                                  baton.pool))
      WithPath(path) ==
        IF path = <<>> \/ path[1] # "/" THEN Skip
        ELSE Matched(path, has_matching_rule(baton.config, name,
                                             baton.memberships))
      WithColon(colon_pos) ==
        IF ~SectionIsRelevant(name, colon_pos, baton.repository) THEN Skip
        ELSE WithPath(IF colon_pos # 0 THEN StrFrom(name, colon_pos)
                      ELSE name)
  IN WithColon(strchr(name, ":"))

\* min_rights / max_rights of a node from its own rights and those of its
\* finalized sub-nodes ("parent->max_rights |= node->max_rights").
CombineMaxOwnOnly(rights, subs) == rights
CombineMax(rights, subs) ==
  rights \cup UNION {subs[s].max_rights : s \in DOMAIN subs}

CombineMinOwnOnly(rights, subs) == rights
CombineMin(rights, subs) ==
  {x \in rights : \A s \in DOMAIN subs : x \in subs[s].min_rights}

\* NODE finalized; its parent's update is applied by the parent's call.
RECURSIVE finalize_tree(_, _)
finalize_tree(inherited_access, node) ==
  LET access == IF node.access # NULL THEN node.access ELSE inherited_access
      Combined(subs) ==
        [node EXCEPT !.min_rights = CombineMin(Deref(access).rights, subs),
                     !.max_rights = CombineMax(Deref(access).rights, subs),
                     !.sub_nodes = subs]
  IN Combined([s \in DOMAIN node.sub_nodes |->
                 finalize_tree(access, node.sub_nodes[s])])

\* The access of the root when no rule sets it.
DefaultRootAccessRead ==
  Ptr([rights |-> svn_authz_read, pool |-> "result_pool"])
DefaultRootAccess == Ptr([rights |-> svn_authz_none, pool |-> "result_pool"])

\* [root, aborted].  The enumeration reads the keys of the memberships
\* after svn_pool_clear(subpool); a key whose string that cleared compares
\* equal to its name only while nothing has overwritten the string:
\* overwritten is the set of the cleared keys that no longer do.
create_user_authz(config, repository, user, ndebug, overwritten) ==
  LET Finalized(with_root) ==
        [root |-> Ptr(finalize_tree(with_root.access, with_root)),
         aborted |-> FALSE]
      Built(baton) ==
        IF baton.aborted THEN [root |-> NULL, aborted |-> TRUE]
        ELSE Finalized(IF baton.root.access = NULL
                       THEN [baton.root EXCEPT !.access = DefaultRootAccess]
                       ELSE baton.root)
  IN Built(svn_config_enumerate_sections2(config, process_path_rule,
             [config |-> config, repository |-> repository,
              memberships |-> get_memberships(config, user) \ overwritten,
              root |-> create_node(<<>>, "result_pool"),
              pool |-> "result_pool",
              ndebug |-> ndebug, aborted |-> FALSE]))

(***************************************************************************)
(* Lookup.                                                                 *)
(***************************************************************************)
RECURSIVE SkipSeparators(_)
SkipSeparators(path) ==
  IF path # <<>> /\ Head(path) = "/" THEN SkipSeparators(Tail(path))
  ELSE path

RECURSIVE StripTrailingSeparators(_)
StripTrailingSeparators(path) ==
  IF path # <<>> /\ path[Len(path)] = "/"
  THEN StripTrailingSeparators(SubSeq(path, 1, Len(path) - 1))
  ELSE path

next_segment_one_separator(path) ==
  LET n == strchr(path, "/")
  IN IF n = 0 THEN [segment |-> path, rest |-> NULL]
     ELSE [segment |-> SubSeq(path, 1, n - 1),
           rest |-> Ptr(StrFrom(path, n))]

\* [segment, rest]: rest is the returned pointer, NULL after the last
\* segment.
next_segment(path) ==
  LET n == strchr(path, "/")
  IN IF n = 0 THEN [segment |-> path, rest |-> NULL]
     ELSE [segment |-> SubSeq(path, 1, n - 1),
           rest |-> Ptr(SkipSeparators(StrFrom(path, n)))]

Shortcut1(max_rights, required) == (max_rights \cap required) # required
Shortcut2AnyBit(min_rights, required) == (min_rights \cap required) # {}
Shortcut2(min_rights, required) == (min_rights \cap required) = required
Shortcut3(min_rights, max_rights, required) ==
  (min_rights \cap required) = (max_rights \cap required)

\* min_rights and max_rights below a segment without a node, where access
\* is the last access seen and rights the value held so far.
InheritedRightsStale(access, rights) == rights
InheritedRights(access, rights) == Deref(access).rights

\* The answer after the walk.
Decision(access, min_rights, required, recursive) ==
  IF recursive THEN (min_rights \cap required) = required
  ELSE (Deref(access).rights \cap required) = required

\* "while (current && path)" from one state of the walk on.  current and
\* path are pointers.
RECURSIVE LookupWalk(_, _, _, _, _, _, _)
LookupWalk(current, path, access, min_rights, max_rights, required, recursive) ==
  IF current = NULL \/ path = NULL
  THEN Decision(access, min_rights, required, recursive)
  ELSE LET seg == next_segment(Deref(path))
           node == Deref(current)
           found == seg.segment \in DOMAIN node.sub_nodes
           next == IF found THEN node.sub_nodes[seg.segment] ELSE node
       IN IF Shortcut1(max_rights, required) THEN FALSE
          ELSE IF Shortcut2(min_rights, required) THEN TRUE
          ELSE IF Shortcut3(min_rights, max_rights, required)
          THEN (min_rights \cap required) = required
          ELSE IF node.sub_nodes # <<>>
          THEN IF found
               THEN LookupWalk(Ptr(next), seg.rest,
                               IF next.access # NULL THEN next.access
                               ELSE access,
                               next.min_rights, next.max_rights, required,
                               recursive)
               ELSE LookupWalk(NULL, seg.rest, access,
                               InheritedRights(access, min_rights),
                               InheritedRights(access, max_rights),
                               required, recursive)
          ELSE LookupWalk(NULL, seg.rest, access, min_rights, max_rights,
                          required, recursive)

\* root_node is the node itself (never NULL); path is the string.
lookup(root_node, path, required, recursive) ==
  LookupWalk(Ptr(root_node),
             Ptr(SkipSeparators(StripTrailingSeparators(path))),
             root_node.access, root_node.min_rights, root_node.max_rights,
             required, recursive)

(***************************************************************************)
(* Validating the authz file.  An error is [code, what, name]; what names  *)
(* the message.                                                            *)
(***************************************************************************)
SVN_NO_ERROR == [code |-> "SVN_NO_ERROR", what |-> "", name |-> <<>>]
InvalidConfig(what, name) ==
  [code |-> "SVN_ERR_AUTHZ_INVALID_CONFIG", what |-> what, name |-> name]

\* "Circular dependency between groups '%s' and '%s'"
CircularDependency(sub_group, group) ==
  [code |-> "SVN_ERR_AUTHZ_INVALID_CONFIG", what |-> "circular dependency",
   name |-> sub_group, group |-> group]

\* svn_hash_sets(checked_groups, key, "") and
\* svn_hash_sets(checked_groups, key, NULL).
HashSet(hash, key) == hash \cup {key}
HashRemoveNothing(hash, key) == hash
HashRemove(hash, key) == hash \ {key}

\* The walk with the hash it changes in place: [err, checked_groups,
\* on_path_ok].  checked_groups is the hash when the call returns;
\* on_path is the set of the subgroups the current recursion went
\* through, and on_path_ok tells that the hash was that set when the call
\* began and after every removal.
RECURSIVE GroupWalk(_, _, _, _)
GroupWalk(config, group, checked_groups, on_path) ==
  LET value == svn_config_get(config, SECTION_GROUPS, group)
      begin == [err |-> SVN_NO_ERROR, checked_groups |-> checked_groups,
                on_path_ok |-> checked_groups = on_path]
      Removed(hash, ok) ==
        [err |-> SVN_NO_ERROR, checked_groups |-> hash,
         on_path_ok |-> ok /\ hash = on_path]
      Returned(r, sub, ok) ==
        IF r.err # SVN_NO_ERROR
        THEN [r EXCEPT !.on_path_ok = @ /\ ok]
        ELSE Removed(HashRemove(r.checked_groups, sub), ok /\ r.on_path_ok)
      Member(prev, group_user) ==
        IF prev.err # SVN_NO_ERROR THEN prev
        ELSE IF group_user[1] = "@"
        THEN IF Tail(group_user) \in prev.checked_groups
             THEN [prev EXCEPT
                     !.err = CircularDependency(Tail(group_user), group)]
             ELSE Returned(GroupWalk(config, Tail(group_user),
                                     HashSet(prev.checked_groups,
                                             Tail(group_user)),
                                     on_path \cup {Tail(group_user)}),
                           Tail(group_user), prev.on_path_ok)
        ELSE IF group_user[1] = "&"
             /\ svn_config_get(config, SECTION_ALIASES,
                               Tail(group_user)) = NULL
        THEN [prev EXCEPT
                !.err = InvalidConfig("undefined alias", Tail(group_user))]
        ELSE prev
      Walk(list) ==
        LET walk[i \in 0..Len(list)] ==
              IF i = 0 THEN begin ELSE Member(walk[i-1], list[i])
        IN walk[Len(list)]
  IN IF value = NULL
     THEN [begin EXCEPT !.err = InvalidConfig("undefined group", group)]
     ELSE Walk(svn_cstring_split(Deref(value), ",", TRUE))

authz_group_walk(config, group, checked_groups) ==
  GroupWalk(config, group, checked_groups, checked_groups).err

\* "svn_config_get(b->config, &val, section, option, NULL); if (!val)"
OptionIsUndefinedNever(config, section, option) == FALSE
OptionIsUndefined(config, section, option) ==
  svn_config_get(config, section, option) = NULL

\* The first character of value that is not allowed, 0 if there is none.
BadRuleCharNone(value) == 0
BadRuleChar(value) ==
  IF \E i \in 1..Len(value) : ~(value[i] \in {"r", "w"} \/ IsSpace(value[i]))
  THEN CHOOSE i \in 1..Len(value) :
         ~(value[i] \in {"r", "w"} \/ IsSpace(value[i]))
  ELSE 0

\* baton: [config, err]
authz_validate_rule(rule_match_string, value, baton) ==
  LET inverted == rule_match_string # <<>> /\ rule_match_string[1] = "~"
      match == IF inverted THEN Tail(rule_match_string)
               ELSE rule_match_string
      first == IF match = <<>> THEN "" ELSE match[1]
      fail(e) == [keep |-> FALSE, baton |-> [baton EXCEPT !.err = e]]
  IN IF inverted /\ first = "~"
     THEN fail(InvalidConfig("double negative", rule_match_string))
     ELSE IF inverted /\ match = STAR
     THEN fail(InvalidConfig("never matches", rule_match_string))
     ELSE IF first = "@"
          /\ OptionIsUndefined(baton.config, SECTION_GROUPS, Tail(match))
     THEN fail(InvalidConfig("undefined group", rule_match_string))
     ELSE IF first = "&"
          /\ OptionIsUndefined(baton.config, SECTION_ALIASES, Tail(match))
     THEN fail(InvalidConfig("undefined alias", rule_match_string))
     ELSE IF first = "$"
          /\ match \notin {TOKEN_ANONYMOUS, TOKEN_AUTHENTICATED}
     THEN fail(InvalidConfig("unrecognized token", rule_match_string))
     ELSE IF BadRuleChar(value) # 0
     THEN fail(InvalidConfig("bad character", rule_match_string))
     ELSE [keep |-> TRUE, baton |-> baton]

authz_validate_alias(alias, value, baton) ==
  [keep |-> TRUE, baton |-> baton]

authz_validate_group_unchecked(group, value, baton) ==
  [keep |-> TRUE, baton |-> baton]
authz_validate_group(group, value, baton) ==
  LET Walked(err) ==
        [keep |-> err = SVN_NO_ERROR, baton |-> [baton EXCEPT !.err = err]]
  IN Walked(authz_group_walk(baton.config, group, {}))

\* svn_fspath__is_canonical: an absolute path without empty, "." or ".."
\* components and without a trailing separator.
svn_fspath__is_canonical(fspath) ==
  /\ fspath # <<>>
  /\ fspath[1] = "/"
  /\ \/ Len(fspath) = 1
     \/ /\ fspath[Len(fspath)] # "/"
        /\ \A i \in 1..(Len(fspath) - 1) :
             ~(fspath[i] = "/" /\ fspath[i+1] = "/")
        /\ \A i \in 1..Len(fspath) : \A j \in i..Len(fspath) :
             (/\ fspath[i] = "/"
              /\ (j = Len(fspath) \/ fspath[j+1] = "/")
              /\ j > i)
             => SubSeq(fspath, i + 1, j) \notin {<<".">>, <<".", ".">>}

\* "if (b->err) return FALSE; return TRUE;"
SectionKeepAlways(err) == TRUE
SectionKeep(err) == err = SVN_NO_ERROR

authz_validate_section(name, baton) ==
  LET colon == strchr(name, ":")
      fspath == IF colon # 0 THEN StrFrom(name, colon) ELSE name
      Enumerated(after) == [keep |-> SectionKeep(after.err), baton |-> after]
  IN IF name = SECTION_GROUPS
     THEN Enumerated(svn_config_enumerate2(baton.config, name,
                                           authz_validate_group, baton))
     ELSE IF name = SECTION_ALIASES
     THEN Enumerated(svn_config_enumerate2(baton.config, name,
                                           authz_validate_alias, baton))
     ELSE IF ~svn_fspath__is_canonical(fspath)
     THEN [keep |-> FALSE,
           baton |-> [baton EXCEPT
                        !.err = InvalidConfig("non-canonical fspath", name)]]
     ELSE Enumerated(svn_config_enumerate2(baton.config, name,
                                           authz_validate_rule, baton))

svn_repos__authz_config_validate(config) ==
  svn_config_enumerate_sections2(config, authz_validate_section,
                                 [config |-> config, err |-> SVN_NO_ERROR]
                                ).err

(***************************************************************************)
(* Loading.  A stream is [malformed, doc]: doc is the config its text      *)
(* parses to.  A loader returns [err, authz_p]; authz_p is NULL when the   *)
(* loader did not write it.                                                *)
(***************************************************************************)
Stream(doc) == [malformed |-> FALSE, doc |-> doc]
MalformedStream == [malformed |-> TRUE, doc |-> <<>>]

Error(code, what, name) == [code |-> code, what |-> what, name |-> name]

\* svn_error_createf(err->apr_err, err, ...): the same code, err chained.
WrapError(err, what, name) ==
  [code |-> err.code, what |-> what, name |-> name, child |-> err]

\* svn_config_parse(&cfg, stream, ...): [err, cfg], cfg a pointer.
svn_config_parse(stream) ==
  IF stream.malformed
  THEN [err |-> Error("SVN_ERR_MALFORMED_FILE", "parse", <<>>), cfg |-> NULL]
  ELSE [err |-> SVN_NO_ERROR, cfg |-> Ptr(stream.doc)]

\* svn_config_set(cfg, section, option, value): the config afterwards.
svn_config_set(config, section, option, value) ==
  IF svn_config_has_section(config, section)
  THEN [i \in 1..Len(config) |->
          IF config[i].name # section THEN config[i]
          ELSE IF \E j \in 1..Len(config[i].entries) :
                    config[i].entries[j].name = option
          THEN [config[i] EXCEPT !.entries =
                  [j \in 1..Len(config[i].entries) |->
                     IF config[i].entries[j].name = option
                     THEN [name |-> option, value |-> value]
                     ELSE config[i].entries[j]]]
          ELSE [config[i] EXCEPT !.entries =
                  Append(@, [name |-> option, value |-> value])]]
  ELSE Append(config, [name |-> section,
                       entries |-> <<[name |-> option, value |-> value]>>])

\* baton: the authz config.
authz_copy_group(name, value, baton) ==
  [keep |-> TRUE,
   baton |-> svn_config_set(baton, SECTION_GROUPS, name, value)]

\* [err, config]: config is CONFIG after the call.
authz_copy_groups_merging(config, groups_cfg) ==
  [err |-> SVN_NO_ERROR,
   config |-> svn_config_enumerate2(groups_cfg, SECTION_GROUPS,
                                    authz_copy_group, config)]
authz_copy_groups(config, groups_cfg) ==
  IF svn_config_has_section(config, SECTION_GROUPS)
  THEN [err |-> InvalidConfig("groups in authz file", <<>>),
        config |-> config]
  ELSE [err |-> SVN_NO_ERROR,
        config |-> svn_config_enumerate2(groups_cfg, SECTION_GROUPS,
                                         authz_copy_group, config)]

svn_repos__create_authz(config) ==
  [err |-> SVN_NO_ERROR, authz_p |-> Ptr([cfg |-> config])]

\* "SVN_ERR(svn_repos__authz_config_validate(config, pool));
\*  SVN_ERR(svn_repos__create_authz(authz_p, config, pool));"
ValidateAndCreateUnchecked(config) == svn_repos__create_authz(config)
ValidateAndCreate(config) ==
  LET Validated(err) ==
        IF err # SVN_NO_ERROR THEN [err |-> err, authz_p |-> NULL]
        ELSE svn_repos__create_authz(config)
  IN Validated(svn_repos__authz_config_validate(config))

\* groups_stream is a pointer: NULL when no groups stream is given.
svn_repos_authz_parse(stream, groups_stream) ==
  LET Fail(err) == [err |-> err, authz_p |-> NULL]
      Copied(c) ==
        IF c.err # SVN_NO_ERROR THEN Fail(c.err)
        ELSE ValidateAndCreate(c.config)
      WithGroups(config, g) ==
        IF g.err # SVN_NO_ERROR THEN Fail(g.err)
        ELSE Copied(authz_copy_groups(config, Deref(g.cfg)))
      Parsed(p) ==
        IF p.err # SVN_NO_ERROR THEN Fail(p.err)
        ELSE IF groups_stream # NULL
        THEN WithGroups(Deref(p.cfg), svn_config_parse(Deref(groups_stream)))
        ELSE ValidateAndCreate(Deref(p.cfg))
  IN Parsed(svn_config_parse(stream))

(***************************************************************************)
(* Retrieving a config.  world is what the loader finds outside the        *)
(* process: [repos, nodes, files].  repos is the set of the dirents that   *)
(* are repository roots, nodes maps <<root, fs_path>> to the node at the   *)
(* youngest revision ([kind, stream]), files maps the path of a file       *)
(* outside of any repository to its stream.  A retrieval returns           *)
(* [err, cfg], cfg a pointer.                                              *)
(***************************************************************************)
FILE_SCHEME == <<"f", "i", "l", "e", ":", "/", "/">>

\* svn_path_is_url: the path has a scheme followed by "://".
svn_path_is_url(path) ==
  \E i \in 2..(Len(path) - 2) :
    /\ SubSeq(path, i, i + 2) = <<":", "/", "/">>
    /\ \A j \in 1..(i - 1) : path[j] \notin {"/", ":"}

\* svn_uri_get_dirent_from_file_url: [err, dirent].
svn_uri_get_dirent_from_file_url(url) ==
  IF Len(url) > Len(FILE_SCHEME)
     /\ SubSeq(url, 1, Len(FILE_SCHEME)) = FILE_SCHEME
     /\ url[Len(FILE_SCHEME) + 1] = "/"
  THEN [err |-> SVN_NO_ERROR, dirent |-> StrFrom(url, Len(FILE_SCHEME))]
  ELSE [err |-> Error("SVN_ERR_RA_ILLEGAL_URL", "not a local file URL", url),
        dirent |-> <<>>]

\* svn_repos_find_root_path: the deepest repository root that is dirent
\* or a parent directory of it, as a pointer.
svn_repos_find_root_path(world, dirent) ==
  LET roots == {r \in world.repos :
                  /\ Len(r) <= Len(dirent)
                  /\ SubSeq(dirent, 1, Len(r)) = r
                  /\ (Len(r) = Len(dirent) \/ dirent[Len(r) + 1] = "/")}
  IN IF roots = {} THEN NULL
     ELSE Ptr(CHOOSE r \in roots : \A q \in roots : Len(q) <= Len(r))

\* svn_fs_check_path at the youngest revision.
svn_fs_check_path(world, repos_root, fs_path) ==
  IF <<repos_root, fs_path>> \in DOMAIN world.nodes
  THEN world.nodes[<<repos_root, fs_path>>].kind
  ELSE "svn_node_none"

\* svn_config_create2: an empty config.
svn_config_create2 == <<>>

\* svn_config_read3(&cfg, path, must_exist, ...): a missing file is an
\* empty config unless must_exist.
svn_config_read3(world, path, must_exist) ==
  IF path \in DOMAIN world.files THEN svn_config_parse(world.files[path])
  ELSE IF must_exist
  THEN [err |-> Error("SVN_ERR_BAD_FILENAME", "cannot open", path),
        cfg |-> NULL]
  ELSE [err |-> SVN_NO_ERROR, cfg |-> Ptr(svn_config_create2)]

MissingIsEmptyAlways(must_exist) == TRUE
MissingIsEmpty(must_exist) == ~must_exist

authz_retrieve_config_repo(world, dirent, must_exist) ==
  LET Fail(err) == [err |-> err, cfg |-> NULL]
      Parsed(p, fs_path, root_dirent) ==
        IF p.err # SVN_NO_ERROR
        THEN Fail(WrapError(p.err, "error while parsing config file",
                            <<fs_path, root_dirent>>))
        ELSE p
      Checked(node_kind, fs_path, root_dirent) ==
        IF node_kind = "svn_node_none"
        THEN IF MissingIsEmpty(must_exist)
             THEN [err |-> SVN_NO_ERROR, cfg |-> Ptr(svn_config_create2)]
             ELSE Fail(Error("SVN_ERR_ILLEGAL_TARGET", "path not found",
                             <<fs_path, root_dirent>>))
        ELSE IF node_kind # "svn_node_file"
        THEN Fail(Error("SVN_ERR_ILLEGAL_TARGET", "is not a file",
                        <<fs_path, root_dirent>>))
        ELSE Parsed(svn_config_parse(
                      world.nodes[<<root_dirent, fs_path>>].stream),
                    fs_path, root_dirent)
      InRepos(fs_path, root_dirent) ==
        IF fs_path = <<>>
        THEN Fail(Error("SVN_ERR_ILLEGAL_TARGET", "'/' is not a file",
                        root_dirent))
        ELSE Checked(svn_fs_check_path(world, root_dirent, fs_path),
                     fs_path, root_dirent)
      Found(repos_root_dirent) ==
        IF repos_root_dirent = NULL
        THEN Fail(Error("SVN_ERR_RA_LOCAL_REPOS_NOT_FOUND",
                        "unable to find repository", dirent))
        ELSE InRepos(StrFrom(dirent, Len(Deref(repos_root_dirent))),
                     Deref(repos_root_dirent))
  IN Found(svn_repos_find_root_path(world, dirent))

svn_repos__retrieve_config(world, path, must_exist) ==
  LET Converted(d) ==
        IF d.err = SVN_NO_ERROR
        THEN authz_retrieve_config_repo(world, d.dirent, must_exist)
        ELSE [err |-> d.err, cfg |-> NULL]
  IN IF svn_path_is_url(path)
     THEN Converted(svn_uri_get_dirent_from_file_url(path))
     ELSE svn_config_read3(world, path, must_exist)

\* groups_path is a pointer: NULL when there is no groups file.
svn_repos__authz_read(world, path, groups_path, must_exist, accept_urls) ==
  LET Fail(err) == [err |-> err, authz_p |-> NULL]
      Retrieve(p) ==
        IF accept_urls THEN svn_repos__retrieve_config(world, p, must_exist)
        ELSE svn_config_read3(world, p, must_exist)
      Copied(c) ==
        IF c.err # SVN_NO_ERROR
        THEN Fail(WrapError(c.err, "error reading authz file with groups file",
                            <<path, Deref(groups_path)>>))
        ELSE ValidateAndCreate(c.config)
      WithGroups(config, g) ==
        IF g.err # SVN_NO_ERROR THEN Fail(g.err)
        ELSE Copied(authz_copy_groups(config, Deref(g.cfg)))
      Loaded(r) ==
        IF r.err # SVN_NO_ERROR THEN Fail(r.err)
        ELSE IF groups_path # NULL
        THEN WithGroups(Deref(r.cfg), Retrieve(Deref(groups_path)))
        ELSE ValidateAndCreate(Deref(r.cfg))
  IN Loaded(Retrieve(path))

(***************************************************************************)
(* The public query.  [outcome, root]: outcome is "granted" or "denied"    *)
(* (the value of access_granted, with SVN_NO_ERROR), "assertion"           *)
(* (SVN_ERR_ASSERT returned its error) or "abort" (assert ended the        *)
(* process).                                                               *)
(***************************************************************************)
\* The call from the first use of path on, tree being what
\* create_user_authz returned.
DecideAccess(tree, path, required_access) ==
  LET required == required_access \ svn_authz_recursive
      recursive == (required_access \cap svn_authz_recursive) # {}
      decide(granted) == IF granted THEN "granted" ELSE "denied"
  IN IF tree.aborted THEN [outcome |-> "abort", root |-> NULL]
     ELSE IF path = NULL
     THEN [outcome |->
             decide((Deref(tree.root).max_rights \cap required) = required),
           root |-> tree.root]
     ELSE IF Deref(path) = <<>> \/ Deref(path)[1] # "/"
     THEN [outcome |-> "assertion", root |-> tree.root]
     ELSE [outcome |-> decide(lookup(Deref(tree.root), Tail(Deref(path)),
                                     required, recursive)),
           root |-> tree.root]

svn_repos_authz_check_access(az, repos_name, path, user, required_access, ndebug, overwritten) ==
  LET repository == IF repos_name = NULL THEN <<>> ELSE Deref(repos_name)
  IN DecideAccess(create_user_authz(az.cfg, repository, user, ndebug, overwritten),
                  path, required_access)

(***************************************************************************)
(* Inputs.                                                                 *)
(***************************************************************************)
MaxRules == 2      \* path-rule sections of one config
MaxSegs == 2       \* segments of a queried path

Entry(name, value) == [name |-> name, value |-> value]
Section(name, entries) == [name |-> name, entries |-> entries]

UserU == <<"u">>
UserV == <<"v">>
SegNames == {<<"a">>, <<"b">>}

\* The sequences over S of length at most n.
RECURSIVE SeqsUpTo(_, _)
SeqsUpTo(S, n) ==
  IF n = 0 THEN {<<>>}
  ELSE LET shorter == SeqsUpTo(S, n - 1)
       IN shorter \cup {Append(q, x) : q \in shorter, x \in S}

\* The path with the given segments: "/" for none, else "/s1/s2...".
RECURSIVE JoinSegs(_)
JoinSegs(segs) ==
  IF segs = <<>> THEN <<>>
  ELSE <<"/">> \o Head(segs) \o JoinSegs(Tail(segs))

PathOf(segs) == IF segs = <<>> THEN <<"/">> ELSE JoinSegs(segs)

QueryPaths == {NULL} \cup {Ptr(PathOf(q)) : q \in SeqsUpTo(SegNames, MaxSegs)}

RequiredSets ==
  {r \cup f : r \in (SUBSET {"read", "write"}) \ {{}},
              f \in {{}, svn_authz_recursive}}

RuleValues == {<<>>, <<"r">>, <<"w">>, <<"r", "w">>}

\* Section names in the order in which a config lists them.
TreeSectionNames ==
  <<PathOf(<<>>), PathOf(<<<<"a">>>>), PathOf(<<<<"a">>, <<"b">>>>),
    PathOf(<<<<"b">>>>)>>

Range(q) == {q[i] : i \in 1..Len(q)}

\* The configs that give some of the names (at most MaxRules of them) one
\* section each, with the entries that pick(name) chooses.
RECURSIVE SectionsOf(_, _, _)
SectionsOf(names, chosen, f) ==
  IF names = <<>> THEN <<>>
  ELSE (IF Head(names) \in chosen
        THEN <<Section(Head(names), f[Head(names)])>> ELSE <<>>)
       \o SectionsOf(Tail(names), chosen, f)

ConfigsOver(names, entryLists) ==
  UNION {{SectionsOf(names, chosen, f) : f \in [chosen -> entryLists]} :
         chosen \in {c \in SUBSET Range(names) : Cardinality(c) <= MaxRules}}

\* Rules for user u alone, on a small tree of paths.
TreeConfigs ==
  ConfigsOver(TreeSectionNames, {<<Entry(UserU, v)>> : v \in RuleValues})

(***************************************************************************)
(* The state machine.                                                      *)
(***************************************************************************)
NoQuery == [repos_name |-> NULL, path |-> NULL, user |-> NULL,
            required_access |-> {}]

NoLoad == [op |-> "none"]

\* Threads that query one authz object at the same time.
Threads == {1, 2}
NoCall == [pc |-> "idle"]
NoResult == [err |-> SVN_NO_ERROR, cfg |-> NULL]
NoIter == [pc |-> "idle"]

InitWithGroups(configs, groupsConfigs) ==
  /\ cfg \in configs
  /\ authz = NULL
  /\ load_err = SVN_NO_ERROR
  /\ query = NoQuery
  /\ root = NULL
  /\ outcome = "none"
  /\ groups \in groupsConfigs
  /\ load = NoLoad
  /\ retrieved = NoResult
  /\ calls = [t \in Threads |-> NoCall]
  /\ iter = NoIter

InitWith(configs) == InitWithGroups(configs, {NULL})

\* svn_repos_authz_parse(&authz, stream, groups_stream): groups_stream is
\* a pointer, NULL when there is no groups stream.
AuthzParse(stream, groups_stream) ==
  /\ load = NoLoad
  /\ \E r \in {svn_repos_authz_parse(stream, groups_stream)} :
       /\ load_err' = r.err
       /\ authz' = r.authz_p
  /\ load' = [op |-> "svn_repos_authz_parse", stream |-> stream,
              groups_stream |-> groups_stream]
  /\ UNCHANGED <<cfg, groups, query, root, outcome, retrieved, calls, iter>>

\* svn_repos_authz_parse of the rules document, without a groups stream:
\* the config is validated and the authz object is created only for a
\* valid one.
Parse == AuthzParse(Stream(cfg), NULL)

\* svn_repos__create_authz: an authz object around a config as it is.
CreateAuthz ==
  /\ load = NoLoad
  /\ \E r \in {svn_repos__create_authz(cfg)} :
       /\ load_err' = r.err
       /\ authz' = r.authz_p
  /\ load' = [op |-> "svn_repos__create_authz"]
  /\ UNCHANGED <<cfg, groups, query, root, outcome, retrieved, calls, iter>>

CheckAccess(repos_name, path, user, required_access) ==
  /\ authz # NULL
  /\ \E ndebug \in BOOLEAN :
       \E overwritten \in SUBSET ClearedKeys(Deref(authz).cfg, user) :
         \E r \in {svn_repos_authz_check_access(Deref(authz), repos_name,
                      path, user, required_access, ndebug, overwritten)} :
           /\ root' = r.root
           /\ outcome' = r.outcome
  /\ query' = [repos_name |-> repos_name, path |-> path, user |-> user,
               required_access |-> required_access]
  /\ UNCHANGED <<cfg, authz, load_err, groups, load, retrieved, calls, iter>>

Query(reposNames, paths, users) ==
  \E repos_name \in reposNames, path \in paths, user \in users,
     required_access \in RequiredSets :
       CheckAccess(repos_name, path, user, required_access)

\* The answer to a query does not depend on the queries before it (they
\* leave cfg and authz alone), so the specifications below run the first
\* query from every loaded state: every state a later query reaches is
\* reached by a first one.
FirstQuery(reposNames, paths, users) ==
  /\ outcome = "none"
  /\ Query(reposNames, paths, users)

Init == InitWith(TreeConfigs)
Next ==
  \/ Parse
  \/ CreateAuthz
  \/ FirstQuery({NULL}, QueryPaths, {Ptr(UserU), Ptr(UserV)})
Spec == Init /\ [][Next]_vars

(***************************************************************************)
(* Further families of inputs, each with its specification.                *)
(***************************************************************************)
MaxEntries == 2    \* entries of the path-rule section under test
MaxMembers == 2    \* members of one group

ReposA == <<"A">>
ReposB == <<"B">>
AliasX == <<"x">>
GroupG == <<"g">>
GroupH == <<"h">>

\* Sections for user u with and without a repository prefix, the empty
\* prefix included.
ReposSectionNames ==
  <<PathOf(<<>>), PathOf(<<<<"a">>>>),
    ReposA \o <<":">> \o PathOf(<<<<"a">>>>),
    ReposB \o <<":">> \o PathOf(<<<<"a">>>>),
    <<":">> \o PathOf(<<<<"a">>>>)>>

ReposConfigs ==
  ConfigsOver(ReposSectionNames,
              {<<Entry(UserU, v)>> : v \in {<<>>, <<"r">>, <<"r", "w">>}})

InitRepos == InitWith(ReposConfigs)
NextRepos ==
  \/ Parse
  \/ CreateAuthz
  \/ FirstQuery({NULL, Ptr(ReposA), Ptr(ReposB)}, QueryPaths, {Ptr(UserU)})
SpecRepos == InitRepos /\ [][NextRepos]_vars

\* The entry lists that give some of the keys (at most n of them) one
\* entry each, in the order of keys.
RECURSIVE EntriesOf(_, _, _)
EntriesOf(keys, chosen, f) ==
  IF keys = <<>> THEN <<>>
  ELSE (IF Head(keys) \in chosen
        THEN <<Entry(Head(keys), f[Head(keys)])>> ELSE <<>>)
       \o EntriesOf(Tail(keys), chosen, f)

EntryLists(keys, values, n) ==
  UNION {{EntriesOf(keys, chosen, f) : f \in [chosen -> values]} :
         chosen \in {c \in SUBSET Range(keys) : Cardinality(c) <= n}}

RuleKeys ==
  <<UserU, UserV, <<"~">> \o UserU, <<"~">> \o UserV, STAR, TOKEN_ANONYMOUS>>

\* One section /a with up to MaxEntries entries, alone or below a root
\* section that grants everybody everything.
RuleConfigs ==
  {parent \o <<Section(PathOf(<<<<"a">>>>), es)>> :
     parent \in {<<>>,
                 <<Section(PathOf(<<>>), <<Entry(STAR, <<"r", "w">>)>>)>>},
     es \in EntryLists(RuleKeys, {<<>>, <<"r">>, <<"w">>}, MaxEntries)}

InitRule == InitWith(RuleConfigs)
NextRule ==
  \/ Parse
  \/ CreateAuthz
  \/ FirstQuery({NULL}, {NULL, Ptr(PathOf(<<<<"a">>>>))}, {NULL, Ptr(UserU)})
SpecRule == InitRule /\ [][NextRule]_vars

\* A member list "m1, m2, ...".
RECURSIVE JoinMembers(_)
JoinMembers(members) ==
  IF members = <<>> THEN <<>>
  ELSE IF Len(members) = 1 THEN Head(members)
  ELSE Head(members) \o <<",", " ">> \o JoinMembers(Tail(members))

RECURSIVE MembersOf(_, _)
MembersOf(tokens, chosen) ==
  IF tokens = <<>> THEN <<>>
  ELSE (IF Head(tokens) \in chosen THEN <<Head(tokens)>> ELSE <<>>)
       \o MembersOf(Tail(tokens), chosen)

MemberTokens ==
  <<UserU, UserV, <<"&">> \o AliasX, <<"@">> \o GroupG, <<"@">> \o GroupH>>

MemberLists ==
  {JoinMembers(MembersOf(MemberTokens, chosen)) :
     chosen \in {c \in SUBSET Range(MemberTokens) :
                   Cardinality(c) <= MaxMembers}}

\* The [groups] sections over g and h, each group defined or not.
GroupEntryLists ==
  {g \o h : g \in {<<>>} \cup {<<Entry(GroupG, m)>> : m \in MemberLists},
            h \in {<<>>} \cup {<<Entry(GroupH, m)>> : m \in MemberLists}}

AliasEntryLists ==
  {<<>>, <<Entry(AliasX, UserU)>>, <<Entry(AliasX, UserV)>>}

\* Aliases and groups (nested, cyclic and undefined ones included), and a
\* root section that refers to them.
IdentConfigs ==
  {(IF al = <<>> THEN <<>> ELSE <<Section(SECTION_ALIASES, al)>>)
   \o (IF gr = <<>> THEN <<>> ELSE <<Section(SECTION_GROUPS, gr)>>)
   \o <<Section(PathOf(<<>>),
                <<Entry(<<"@">> \o GroupG, <<"r">>),
                  Entry(<<"@">> \o GroupH, <<"w">>)>>)>> :
     al \in AliasEntryLists, gr \in GroupEntryLists}

InitIdent == InitWith(IdentConfigs)
NextIdent ==
  \/ Parse
  \/ CreateAuthz
  \/ FirstQuery({NULL}, {Ptr(PathOf(<<>>))}, {Ptr(UserU), Ptr(UserV)})
SpecIdent == InitIdent /\ [][NextIdent]_vars

GroupK == <<"k">>

GroupRefs == <<UserU, <<"@">> \o GroupG, <<"@">> \o GroupH, <<"@">> \o GroupK>>

GroupRefLists ==
  {JoinMembers(MembersOf(GroupRefs, chosen)) :
     chosen \in {c \in SUBSET Range(GroupRefs) :
                   Cardinality(c) <= MaxMembers}}

\* The [groups] sections over g, h and k, each group defined or not, with
\* chains and cycles of up to three groups, below a rule for a plain user.
GroupConfigs ==
  {(IF g \o h \o k = <<>> THEN <<>>
    ELSE <<Section(SECTION_GROUPS, g \o h \o k)>>)
   \o <<Section(PathOf(<<>>), <<Entry(UserU, <<"r">>)>>)>> :
     g \in {<<>>} \cup {<<Entry(GroupG, m)>> : m \in GroupRefLists},
     h \in {<<>>} \cup {<<Entry(GroupH, m)>> : m \in GroupRefLists},
     k \in {<<>>} \cup {<<Entry(GroupK, m)>> : m \in GroupRefLists}}

InitGroups == InitWith(GroupConfigs)
NextGroups ==
  \/ Parse
  \/ CreateAuthz
  \/ FirstQuery({NULL}, {Ptr(PathOf(<<>>))}, {Ptr(UserU)})
SpecGroups == InitGroups /\ [][NextGroups]_vars

MaxKeyEntries == 1

TOKEN_OTHER == <<"$", "o", "t", "h", "e", "r">>

\* Rule keys of every kind the validator tells apart, each also inverted.
ValidatedKeys ==
  LET plain == <<UserU, <<"@">> \o GroupG, <<"&">> \o AliasX, STAR,
                 TOKEN_ANONYMOUS, TOKEN_AUTHENTICATED, TOKEN_OTHER,
                 <<"~">> \o UserU>>
  IN plain \o [i \in 1..Len(plain) |-> <<"~">> \o plain[i]]

ValidatedValues == {<<"r">>, <<"r", " ", "w">>, <<"r", "x">>}

\* One root section with up to MaxKeyEntries entries, with g and x
\* defined or not, and g listing a user, an undefined group or the alias.
KeyConfigs ==
  {al \o gr \o <<Section(PathOf(<<>>), es)>> :
     al \in {<<>>, <<Section(SECTION_ALIASES, <<Entry(AliasX, UserU)>>)>>},
     gr \in {<<>>} \cup
            {<<Section(SECTION_GROUPS, <<Entry(GroupG, m)>>)>> :
               m \in {UserU, <<"@">> \o GroupH, <<"&">> \o AliasX}},
     es \in EntryLists(ValidatedKeys, ValidatedValues, MaxKeyEntries)}

InitKeys == InitWith(KeyConfigs)
NextKeys ==
  \/ Parse
  \/ CreateAuthz
  \/ FirstQuery({NULL}, {Ptr(PathOf(<<>>))}, {Ptr(UserU)})
SpecKeys == InitKeys /\ [][NextKeys]_vars

\* Queries on paths that begin with '/' and on paths that do not, the
\* empty path included.
AnyPaths ==
  {NULL, Ptr(<<>>), Ptr(<<"a">>), Ptr(<<"a", "/", "b">>), Ptr(<<"/">>),
   Ptr(<<"/", "a">>), Ptr(<<"/", "/", "a">>)}

InitPath == InitWith(ReposConfigs)
NextPath ==
  \/ Parse
  \/ CreateAuthz
  \/ FirstQuery({NULL, Ptr(ReposA)}, AnyPaths, {NULL, Ptr(UserU)})
SpecPath == InitPath /\ [][NextPath]_vars

\* Rule keys of every kind, each also inverted, in a section /a of a
\* config whose [aliases] and [groups] name the user u, "*" and
\* "$anonymous".
MaxAnonEntries == 2    \* entries of the section /a

AnonKeys ==
  <<UserU, <<"&">> \o AliasX, <<"@">> \o GroupG, STAR, TOKEN_ANONYMOUS,
    TOKEN_AUTHENTICATED,
    <<"~">> \o UserU, <<"~", "&">> \o AliasX, <<"~", "@">> \o GroupG,
    <<"~">> \o STAR, <<"~">> \o TOKEN_ANONYMOUS,
    <<"~">> \o TOKEN_AUTHENTICATED>>

AnonConfigs ==
  {al \o gr \o <<Section(PathOf(<<<<"a">>>>), es)>> :
     al \in {<<>>, <<Section(SECTION_ALIASES, <<Entry(AliasX, UserU)>>)>>},
     gr \in {<<>>} \cup
            {<<Section(SECTION_GROUPS, <<Entry(GroupG, m)>>)>> :
               m \in {UserU, JoinMembers(<<STAR, TOKEN_ANONYMOUS>>)}},
     es \in EntryLists(AnonKeys, {<<"r">>, <<"w">>}, MaxAnonEntries)}

InitAnon == InitWith(AnonConfigs)
NextAnon ==
  \/ Parse
  \/ CreateAuthz
  \/ FirstQuery({NULL}, {Ptr(PathOf(<<<<"a">>>>))}, {NULL, Ptr(UserU)})
SpecAnon == InitAnon /\ [][NextAnon]_vars

\* Configs with up to two invalid elements at different places: a
\* [groups] section before or after the rules, a root section with up to
\* MaxStopEntries entries, and a second section.
MaxStopEntries == 2

StopKeys == <<UserU, <<"~", "~">> \o UserU, TOKEN_OTHER, UserV>>

StopEntryLists ==
  {es \in SeqsUpTo({Entry(k, IF k = UserV THEN <<"x">> ELSE <<"r">>) :
                      k \in Range(StopKeys)}, MaxStopEntries) :
     \A i \in 1..Len(es) : \A j \in 1..Len(es) :
       es[i].name = es[j].name => i = j}

StopConfigs ==
  UNION {{gr \o rules, rules \o gr} :
     gr \in {<<>>,
             <<Section(SECTION_GROUPS, <<Entry(GroupG, UserU)>>)>>,
             <<Section(SECTION_GROUPS,
                       <<Entry(GroupG, <<"@">> \o GroupH)>>)>>,
             <<Section(SECTION_GROUPS,
                       <<Entry(GroupG, UserU),
                         Entry(GroupH, <<"&">> \o AliasX)>>)>>},
     rules \in {<<Section(PathOf(<<>>), es)>> \o tail :
                  es \in StopEntryLists,
                  tail \in {<<>>,
                            <<Section(PathOf(<<<<"a">>>>),
                                      <<Entry(UserU, <<"r">>)>>)>>,
                            <<Section(PathOf(<<<<"a">>>>),
                                      <<Entry(<<"~">> \o STAR, <<"r">>)>>)>>,
                            <<Section(PathOf(<<<<"a">>>>) \o <<"/">>,
                                      <<Entry(UserU, <<"r">>)>>)>>}}}

InitStop == InitWith(StopConfigs)
NextStop ==
  \/ Parse
  \/ CreateAuthz
  \/ FirstQuery({NULL}, {Ptr(PathOf(<<>>))}, {Ptr(UserU)})
SpecStop == InitStop /\ [][NextStop]_vars

\* [groups] sections in which a group is reached through several parents
\* or is listed more than once in a member list (of up to MaxWalkMembers
\* members), acyclic or closed by k.
MaxWalkMembers == 2

WalkLists(refs) ==
  {JoinMembers(q) : q \in SeqsUpTo(refs, MaxWalkMembers) \ {<<>>}}

WalkConfigs ==
  {al \o <<Section(SECTION_GROUPS, <<Entry(GroupG, g)>> \o h \o k),
            Section(PathOf(<<>>), <<Entry(<<"@">> \o GroupG, <<"r">>)>>)>> :
     al \in {<<>>, <<Section(SECTION_ALIASES, <<Entry(AliasX, UserU)>>)>>},
     g \in WalkLists({<<"@">> \o GroupH, <<"@">> \o GroupK}),
     h \in {<<>>} \cup {<<Entry(GroupH, m)>> :
                          m \in WalkLists({<<"@">> \o GroupK, UserU})},
     k \in {<<>>} \cup {<<Entry(GroupK, m)>> :
                          m \in {UserU, <<"@">> \o GroupG,
                                 <<"@">> \o GroupK}}}

InitWalk == InitWith(WalkConfigs)
NextWalk ==
  \/ Parse
  \/ CreateAuthz
  \/ FirstQuery({NULL}, {Ptr(PathOf(<<>>))}, {Ptr(UserU), Ptr(UserV)})
SpecWalk == InitWalk /\ [][NextWalk]_vars

\* User names that look like a group, an alias or a token.
NamedLikeGroup == <<"@">> \o GroupG
NamedLikeAlias == <<"&">> \o AliasX
NameUsers ==
  {Ptr(UserU), Ptr(UserV), Ptr(NamedLikeGroup), Ptr(NamedLikeAlias),
   Ptr(TOKEN_ANONYMOUS)}

NameKeys ==
  {<<"@">> \o GroupG, <<"@">> \o GroupH, <<"&">> \o AliasX,
   TOKEN_ANONYMOUS, TOKEN_AUTHENTICATED}

\* An alias or none, the groups g and h, and a root section with one rule
\* that grants read and write to a group, an alias or a token.
NameConfigs ==
  {al \o <<Section(SECTION_GROUPS, <<Entry(GroupG, g)>> \o h),
            Section(PathOf(<<>>), <<Entry(key, <<"r", "w">>)>>)>> :
     al \in {<<>>, <<Section(SECTION_ALIASES, <<Entry(AliasX, UserU)>>)>>},
     g \in {<<>>, UserU, <<"&">> \o AliasX, <<"@">> \o GroupH},
     h \in {<<>>} \cup {<<Entry(GroupH, m)>> : m \in {UserU, UserV}},
     key \in NameKeys}

InitNames == InitWith(NameConfigs)
NextNames ==
  \/ Parse
  \/ CreateAuthz
  \/ FirstQuery({NULL}, {Ptr(PathOf(<<>>))}, NameUsers)
SpecNames == InitNames /\ [][NextNames]_vars

\* Paths that are not normalized: every separator a run of up to MaxRun
\* '/', and up to MaxRun trailing '/'.
MaxRun == 2

Slashes(n) == [i \in 1..n |-> "/"]

RECURSIVE SpellingsOf(_)
SpellingsOf(segs) ==
  IF segs = <<>> THEN {Slashes(n) : n \in 0..MaxRun}
  ELSE {Slashes(n) \o Head(segs) \o rest :
          n \in 1..MaxRun, rest \in SpellingsOf(Tail(segs))}

NormSegs ==
  {<<>>, <<<<"a">>>>, <<<<"b">>>>, <<<<"a">>, <<"b">>>>, <<<<"a">>, <<"a">>>>}

NormPaths ==
  {Ptr(p) : p \in (UNION {SpellingsOf(segs) : segs \in NormSegs}) \ {<<>>}}

NormConfigs ==
  ConfigsOver(<<PathOf(<<>>), PathOf(<<<<"a">>>>), PathOf(<<<<"a">>, <<"b">>>>)>>,
              {<<Entry(UserU, v)>> : v \in {<<>>, <<"r">>, <<"r", "w">>}})

InitNorm == InitWith(NormConfigs)
NextNorm ==
  \/ Parse
  \/ CreateAuthz
  \/ FirstQuery({NULL}, NormPaths, {Ptr(UserU)})
SpecNorm == InitNorm /\ [][NextNorm]_vars

\* Two threads that query one authz object.  A call is two steps: up to
\* the return of create_user_authz (the tree is in the call's own pool),
\* and from there to the return of the call.  assert ends the process, and
\* NDEBUG is the same for every call of one process.
ReadQueries ==
  {[repos_name |-> NULL, path |-> path, user |-> Ptr(UserU),
    required_access |-> required_access] :
     path \in {NULL, Ptr(PathOf(<<>>)), Ptr(PathOf(<<<<"a">>>>))},
     required_access \in {svn_authz_read,
                          svn_authz_read \cup svn_authz_write
                            \cup svn_authz_recursive}}

Running == \A t \in Threads : calls[t].pc # "idle" => calls[t].outcome # "abort"

\* svn_repos_authz_check_access up to the return of create_user_authz.
BeginQuery(t, q, ndebug) ==
  /\ authz # NULL
  /\ Running
  /\ calls[t].pc = "idle"
  /\ \A o \in Threads : calls[o].pc # "idle" => calls[o].ndebug = ndebug
  /\ \E overwritten \in SUBSET ClearedKeys(Deref(authz).cfg, q.user) :
       \E tree \in {create_user_authz(Deref(authz).cfg,
                       IF q.repos_name = NULL THEN <<>>
                       ELSE Deref(q.repos_name), q.user, ndebug,
                       overwritten)} :
         calls' = [calls EXCEPT ![t] =
                     [pc |-> IF tree.aborted THEN "done" ELSE "built",
                      query |-> q, ndebug |-> ndebug,
                      overwritten |-> overwritten, tree |-> tree,
                      outcome |-> IF tree.aborted THEN "abort" ELSE "none",
                      during |-> {o \in Threads : calls[o].pc = "built"}]]
  /\ UNCHANGED <<cfg, authz, load_err, groups, load, retrieved, query, root,
                 outcome, iter>>

FinishQueryCaching(t) ==
  /\ Running
  /\ calls[t].pc = "built"
  /\ \E r \in {DecideAccess(calls[t].tree, calls[t].query.path,
                             calls[t].query.required_access)} :
       calls' = [calls EXCEPT ![t].pc = "done", ![t].outcome = r.outcome,
                              ![t].tree.root =
                                Ptr([Deref(@) EXCEPT !.max_rights = {}])]
  /\ UNCHANGED <<cfg, authz, load_err, groups, load, retrieved, query, root,
                 outcome, iter>>

\* svn_repos_authz_check_access from the first use of path to its return.
FinishQuery(t) ==
  /\ Running
  /\ calls[t].pc = "built"
  /\ \E r \in {DecideAccess(calls[t].tree, calls[t].query.path,
                             calls[t].query.required_access)} :
       calls' = [calls EXCEPT ![t].pc = "done", ![t].outcome = r.outcome]
  /\ UNCHANGED <<cfg, authz, load_err, groups, load, retrieved, query, root,
                 outcome, iter>>

\* Sections for user u on / and /a, /a also with the empty repository
\* name.
ReadSectionNames ==
  <<PathOf(<<>>), PathOf(<<<<"a">>>>), <<":">> \o PathOf(<<<<"a">>>>)>>

ReadConfigs ==
  ConfigsOver(ReadSectionNames,
              {<<Entry(UserU, v)>> : v \in {<<>>, <<"r", "w">>}})

InitRead == InitWith(ReadConfigs)
NextRead ==
  \/ Parse
  \/ CreateAuthz
  \/ \E t \in Threads, q \in ReadQueries, ndebug \in BOOLEAN :
       BeginQuery(t, q, ndebug)
  \/ \E t \in Threads : FinishQuery(t)
SpecRead == InitRead /\ [][NextRead]_vars

\* Rules documents and groups documents for the loaders: with and without
\* [groups], with a rule for a group that only the groups document can
\* define, and with a defect.
LoadConfigs ==
  {<<>>,
   <<Section(PathOf(<<>>), <<Entry(UserU, <<"r", "w">>)>>)>>,
   <<Section(PathOf(<<>>), <<Entry(<<"@">> \o GroupG, <<"r">>)>>)>>,
   <<Section(SECTION_GROUPS, <<Entry(GroupG, UserU)>>),
     Section(PathOf(<<>>), <<Entry(<<"@">> \o GroupG, <<"r", "w">>)>>)>>,
   <<Section(SECTION_GROUPS, <<>>),
     Section(PathOf(<<>>), <<Entry(UserU, <<"r">>)>>)>>,
   <<Section(PathOf(<<>>), <<Entry(<<"~", "~">> \o UserU, <<"r">>)>>)>>}

GroupsConfigs ==
  {<<>>,
   <<Section(SECTION_GROUPS, <<Entry(GroupG, UserU)>>)>>,
   <<Section(SECTION_GROUPS,
             <<Entry(GroupH, UserV), Entry(GroupG, <<"@">> \o GroupH)>>)>>,
   <<Section(SECTION_GROUPS, <<Entry(GroupG, <<"@">> \o GroupH)>>)>>,
   <<Section(SECTION_GROUPS, <<Entry(GroupG, UserV)>>),
     Section(PathOf(<<>>), <<Entry(UserV, <<"r", "w">>)>>)>>}

\* What the loaders find: one repository at /r whose youngest revision has
\* the rules document at /a, the groups document (if there is one) at /g,
\* a directory /d and a file /b that does not parse; the same documents
\* as files /e/a, /e/g and /e/b outside of the repository.
ReposRoot == <<"/", "r">>
FsAuthz == <<"/", "a">>
FsGroups == <<"/", "g">>
FsDir == <<"/", "d">>
FsBad == <<"/", "b">>
FsNone == <<"/", "n">>
Outside == <<"/", "e">>
Elsewhere == <<"/", "x">>
OtherScheme == <<"h", "t", "t", "p", ":", "/", "/", "h">>

File(stream) == [kind |-> "svn_node_file", stream |-> stream]
Dir == [kind |-> "svn_node_dir", stream |-> MalformedStream]

World(config, groups_config) ==
  LET names == {FsAuthz, FsDir, FsBad}
                 \cup (IF groups_config = NULL THEN {} ELSE {FsGroups})
      node(n) == IF n = FsAuthz THEN File(Stream(config))
                 ELSE IF n = FsGroups THEN File(Stream(Deref(groups_config)))
                 ELSE IF n = FsBad THEN File(MalformedStream)
                 ELSE Dir
  IN [repos |-> {ReposRoot},
      nodes |-> [k \in {<<ReposRoot, n>> : n \in names} |-> node(k[2])],
      files |-> [f \in {Outside \o n : n \in names \ {FsDir}} |->
                   node(StrFrom(f, Len(Outside))).stream]]

RulesPaths ==
  {FILE_SCHEME \o ReposRoot \o n : n \in {FsAuthz, FsDir, FsBad, FsNone, <<>>}}
    \cup {FILE_SCHEME \o Elsewhere \o FsAuthz, OtherScheme \o FsAuthz,
          Outside \o FsAuthz, Outside \o FsNone}

GroupsPaths ==
  {NULL} \cup {Ptr(FILE_SCHEME \o ReposRoot \o n) : n \in {FsGroups, FsDir, FsNone}}
         \cup {Ptr(Outside \o FsGroups)}

\* svn_repos__authz_read(&authz, path, groups_path, must_exist, accept_urls)
AuthzRead(path, groups_path, must_exist, accept_urls) ==
  /\ load = NoLoad
  /\ \E r \in {svn_repos__authz_read(World(cfg, groups), path, groups_path,
                                      must_exist, accept_urls)} :
       /\ load_err' = r.err
       /\ authz' = r.authz_p
  /\ load' = [op |-> "svn_repos__authz_read", path |-> path,
              groups_path |-> groups_path, must_exist |-> must_exist,
              accept_urls |-> accept_urls]
  /\ UNCHANGED <<cfg, groups, query, root, outcome, retrieved, calls, iter>>

\* svn_repos__retrieve_config(&cfg, path, must_exist)
RetrieveConfig(path, must_exist) ==
  /\ load = NoLoad
  /\ retrieved' = svn_repos__retrieve_config(World(cfg, groups), path,
                                             must_exist)
  /\ load' = [op |-> "svn_repos__retrieve_config", path |-> path,
              must_exist |-> must_exist]
  /\ UNCHANGED <<cfg, groups, authz, load_err, query, root, outcome, calls, iter>>

InitLoad ==
  InitWithGroups(LoadConfigs, {NULL} \cup {Ptr(g) : g \in GroupsConfigs})
NextLoad ==
  \/ \E stream \in {Stream(cfg), MalformedStream},
        groups_stream \in {NULL, Ptr(MalformedStream)}
                            \cup {Ptr(Stream(Deref(g))) : g \in {groups} \ {NULL}} :
       AuthzParse(stream, groups_stream)
  \/ \E path \in RulesPaths, groups_path \in GroupsPaths,
        must_exist \in BOOLEAN, accept_urls \in BOOLEAN :
       AuthzRead(path, groups_path, must_exist, accept_urls)
  \/ \E path \in RulesPaths, must_exist \in BOOLEAN :
       RetrieveConfig(path, must_exist)
  \/ FirstQuery({NULL}, {Ptr(PathOf(<<>>))}, {Ptr(UserU), Ptr(UserV)})
SpecLoad == InitLoad /\ [][NextLoad]_vars

(***************************************************************************)
(* The iteration drivers (libsvn_subr/iter.c).  A callback is what it      *)
(* returns: items lists, in the order of the iteration, the error that the *)
(* callback returns for each element.  The callback allocates in the pool  *)
(* it is handed.  iter is                                                  *)
(* [pc, driver, items, completed_p, i, err, called, iterpool, pool,        *)
(*  err_cleared, completed, ret]: i counts the elements visited, called    *)
(* lists the calls of the callback as [item, pool, found] (found: the      *)
(* elements whose allocations the handed pool held when the call began),   *)
(* iterpool is [live, held] and pool is [held] (held: the elements whose   *)
(* callbacks' allocations the pool holds), completed is *completed (NULL:  *)
(* not written).                                                           *)
(***************************************************************************)
MaxItems == 3

\* "static svn_error_t internal_break_error": what svn_iter__break returns.
internal_break_error == Error("SVN_ERR_ITER_BREAK", "", <<>>)
svn_iter__break == internal_break_error

\* What a callback may return: no error, svn_iter_break(), an error of its
\* own making with the code SVN_ERR_ITER_BREAK, any other error.
CallbackResults ==
  {SVN_NO_ERROR, svn_iter__break,
   Error("SVN_ERR_ITER_BREAK", "callback", <<>>),
   Error("SVN_ERR_CANCELLED", "callback", <<>>)}

Drivers == {"svn_iter_apr_hash", "svn_iter_apr_array"}

\* The loop condition "! err && hi" / "(! err) && i < array->nelts".
LoopContinuesAlways(err, more) == more
LoopContinues(err, more) == err = SVN_NO_ERROR /\ more

\* svn_pool_clear and svn_pool_destroy on a pool [live, held].
svn_pool_clear(p) == [p EXCEPT !.held = {}]
svn_pool_destroy(p) == [live |-> FALSE, held |-> {}]

\* The pool argument of "(*func)(...)".
HandedPool(driver) ==
  IF driver = "svn_iter_apr_hash" THEN "iterpool" ELSE "pool"

\* The entry of a driver up to its loop: err = SVN_NO_ERROR and
\* iterpool = svn_pool_create(pool).
IterBegin(driver, items, completed_p) ==
  /\ iter.pc = "idle"
  /\ iter' = [pc |-> "loop", driver |-> driver, items |-> items,
              completed_p |-> completed_p, i |-> 0, err |-> SVN_NO_ERROR,
              called |-> <<>>,
              iterpool |-> [live |-> TRUE, held |-> {}],
              pool |-> [held |-> {}],
              err_cleared |-> FALSE, completed |-> NULL,
              ret |-> SVN_NO_ERROR]
  /\ UNCHANGED <<cfg, authz, load_err, query, root, outcome, groups, load,
                 retrieved, calls>>

\* One turn of the loop: svn_pool_clear(iterpool), then the callback on
\* the next element.
IterCallback ==
  /\ iter.pc = "loop"
  /\ LoopContinues(iter.err, iter.i < Len(iter.items))
  /\ LET item == iter.i + 1
         handed == HandedPool(iter.driver)
         cleared == svn_pool_clear(iter.iterpool)
         found == IF handed = "iterpool" THEN cleared.held
                  ELSE iter.pool.held
     IN iter' = [iter EXCEPT
                   !.i = item,
                   !.called = Append(@, [item |-> item, pool |-> handed,
                                         found |-> found]),
                   !.iterpool =
                     IF handed = "iterpool"
                     THEN [cleared EXCEPT !.held = @ \cup {item}]
                     ELSE cleared,
                   !.pool.held =
                     IF handed = "pool" THEN @ \cup {item} ELSE @,
                   !.err = iter.items[item]]
  /\ UNCHANGED <<cfg, authz, load_err, query, root, outcome, groups, load,
                 retrieved, calls>>

\* From the end of the loop to the return.
IterReturn ==
  /\ iter.pc = "loop"
  /\ ~LoopContinues(iter.err, iter.i < Len(iter.items))
  /\ LET is_break == /\ iter.err # SVN_NO_ERROR
                     /\ iter.err.code = "SVN_ERR_ITER_BREAK"
     IN iter' = [iter EXCEPT
                   !.pc = "returned",
                   !.completed =
                     IF iter.completed_p THEN Ptr(iter.err = SVN_NO_ERROR)
                     ELSE NULL,
                   !.err_cleared =
                     is_break /\ iter.err # internal_break_error,
                   !.ret = IF is_break THEN SVN_NO_ERROR ELSE iter.err,
                   !.iterpool = svn_pool_destroy(iter.iterpool)]
  /\ UNCHANGED <<cfg, authz, load_err, query, root, outcome, groups, load,
                 retrieved, calls>>

InitIter == InitWith({<<>>})
NextIter ==
  \/ \E driver \in Drivers, items \in SeqsUpTo(CallbackResults, MaxItems),
        completed_p \in BOOLEAN :
       IterBegin(driver, items, completed_p)
  \/ IterCallback
  \/ IterReturn
SpecIter == InitIter /\ [][NextIter]_vars

(***************************************************************************)
(* What the claims speak of, stated on the compiled tree and the config    *)
(* without the code's walk.                                                *)
(***************************************************************************)
\* The segments of a queried path.
QuerySegs(path) == svn_cstring_split(path, "/", FALSE)

\* The access in force at the node reached from node along segs, or at the
\* last node of the tree on the way: the node's own access if set, else
\* the nearest ancestor's.
RECURSIVE EffectiveAccess(_, _, _)
EffectiveAccess(node, segs, inherited) ==
  LET own == IF node.access # NULL THEN node.access ELSE inherited
  IN IF segs # <<>> /\ Head(segs) \in DOMAIN node.sub_nodes
     THEN EffectiveAccess(node.sub_nodes[Head(segs)], Tail(segs), own)
     ELSE own

EffectiveRights(tree, segs) == Deref(EffectiveAccess(tree, segs, NULL)).rights

\* The node at segs, as a pointer (NULL: the tree has no such node).
RECURSIVE NodeAt(_, _)
NodeAt(node, segs) ==
  IF segs = <<>> THEN Ptr(node)
  ELSE IF Head(segs) \in DOMAIN node.sub_nodes
  THEN NodeAt(node.sub_nodes[Head(segs)], Tail(segs))
  ELSE NULL

\* The paths (segment sequences) of the nodes of the tree below node.
RECURSIVE NodePaths(_)
NodePaths(node) ==
  {<<>>} \cup UNION {{<<s>> \o q : q \in NodePaths(node.sub_nodes[s])} :
                     s \in DOMAIN node.sub_nodes}

IsPrefix(p, q) == Len(p) <= Len(q) /\ SubSeq(q, 1, Len(p)) = p

Decided == outcome \in {"granted", "denied"}
\* The access record of a rule that gives rights.
AccessRecord(rights) == Ptr([rights |-> rights, pool |-> "result_pool"])
Required == query.required_access \ svn_authz_recursive
IsRecursive == "recursive" \in query.required_access
Tree == Deref(root)


(***************************************************************************)
(* C1.  A recursive grant of R on P implies a non-recursive grant of R on  *)
(* P and on every path below P (the root path included), for a validated   *)
(* config.                                                                 *)
(***************************************************************************)
\* The paths that extend the queried path by at most MaxSegs segments.
Extensions(path) ==
  {PathOf(QuerySegs(path) \o e) : e \in SeqsUpTo(SegNames, MaxSegs)}

C1_RecursiveGrantCoversSubtree ==
  (Decided /\ query.path # NULL /\ IsRecursive /\ outcome = "granted"
     /\ svn_repos__authz_config_validate(Deref(authz).cfg) = SVN_NO_ERROR)
    => \A p \in Extensions(Deref(query.path)) :
         lookup(Tree, Tail(p), Required, FALSE)

(***************************************************************************)
(* C2.  A non-recursive query is granted exactly when the required rights  *)
(* are contained in the rights of the rule at the longest prefix of the    *)
(* path that has one (the root's default when there is none).              *)
(***************************************************************************)
C2_NonRecursiveIsLongestPrefix ==
  (Decided /\ query.path # NULL /\ ~IsRecursive)
    => ((outcome = "granted")
          <=> Required \subseteq
                EffectiveRights(Tree, QuerySegs(Deref(query.path))))

\* A non-recursive query below a rule that another, shorter rule
\* contradicts: the shortcuts cannot decide it.
C2_Witness ==
  /\ Decided /\ query.path # NULL /\ ~IsRecursive
  /\ outcome = "granted"
  /\ Len(QuerySegs(Deref(query.path))) = 2
  /\ ~(Required \subseteq Tree.min_rights)
  /\ ~(Required \subseteq Deref(Tree.access).rights)

(***************************************************************************)
(* C4.  A recursive query on P is granted whenever R is contained in the   *)
(* effective rights of P and of every tree node at or below P.             *)
(***************************************************************************)
\* The effective rights of the queried path and of the nodes below it.
RightsAtOrBelow(tree, segs) ==
  {EffectiveRights(tree, q) :
     q \in {segs} \cup {n \in NodePaths(tree) : IsPrefix(segs, n)}}

C4_RecursiveIsComplete ==
  (Decided /\ query.path # NULL /\ IsRecursive
     /\ \A rights \in RightsAtOrBelow(Tree, QuerySegs(Deref(query.path))) :
          Required \subseteq rights)
    => outcome = "granted"

\* A recursive grant on a path whose node has sub-nodes, under a root that
\* grants less.
C4_Witness ==
  /\ Decided /\ query.path # NULL /\ IsRecursive
  /\ outcome = "granted"
  /\ LET n == NodeAt(Tree, QuerySegs(Deref(query.path)))
     IN n # NULL /\ Deref(n).sub_nodes # <<>> /\ Deref(n).segment # <<>>
  /\ ~(Required \subseteq Deref(Tree.access).rights)

(***************************************************************************)
(* C9.  With path absent the query is granted exactly when some path       *)
(* grants all of the required rights.                                      *)
(***************************************************************************)
\* The effective rights found on the paths of the repository: those of
\* the nodes of the tree (a path without a node has the rights of the
\* last node on its way).
RightsSomewhere(tree) == {EffectiveRights(tree, q) : q \in NodePaths(tree)}

C9_AnyAccessOnOnePath ==
  (Decided /\ query.path = NULL)
    => ((outcome = "granted")
          <=> \E rights \in RightsSomewhere(Tree) : Required \subseteq rights)

\* C9 as amended: with path absent the query is granted exactly when each
\* of the required rights is granted on some path, not necessarily all on
\* the same path.
C9_AnyAccessPerRight ==
  (Decided /\ query.path = NULL)
    => ((outcome = "granted")
          <=> \A x \in Required :
                \E rights \in RightsSomewhere(Tree) : x \in rights)

\* Granted with path absent although no single path grants both of the
\* two required rights.
C9_Witness ==
  /\ Decided /\ query.path = NULL /\ outcome = "granted"
  /\ Required = {"read", "write"}
  /\ \A rights \in RightsSomewhere(Tree) : rights # {"read", "write"}

(***************************************************************************)
(* C10.  When no path-rule section applies to the user and repository,     *)
(* the root's access is non-null with rights none and every query that     *)
(* requires some right is denied.                                          *)
(***************************************************************************)
\* A section name split at its first colon.
NameRepos(name) ==
  IF strchr(name, ":") = 0 THEN NULL
  ELSE Ptr(SubSeq(name, 1, strchr(name, ":") - 1))
NamePath(name) == StrFrom(name, strchr(name, ":"))

\* The section is a path rule for the repository.
AppliesToRepos(name, repository) ==
  /\ NameRepos(name) \in {NULL, Ptr(repository)}
  /\ NamePath(name) # <<>>
  /\ Head(NamePath(name)) = "/"

\* An entry contributes for the identity set.
EntryMatches(entry, identities) ==
  IF entry.name # <<>> /\ Head(entry.name) = "~"
  THEN Tail(entry.name) \notin identities
  ELSE entry.name \in identities

QueryRepository ==
  IF query.repos_name = NULL THEN <<>> ELSE Deref(query.repos_name)
QueryIdentities == get_memberships(Deref(authz).cfg, query.user)

\* The sections with a rule for the querying user and repository.
ApplicableSections ==
  {sec \in Range(Deref(authz).cfg) :
     /\ AppliesToRepos(sec.name, QueryRepository)
     /\ \E e \in Range(sec.entries) : EntryMatches(e, QueryIdentities)}

C10_DenyByDefault ==
  (outcome # "none" /\ ApplicableSections = {} /\ Required # {})
    => /\ outcome = "denied"
       /\ Tree.access = AccessRecord(svn_authz_none)

\* A denied query on a config whose sections all speak of another user.
C10_Witness ==
  /\ outcome = "denied" /\ ApplicableSections = {}
  /\ Deref(authz).cfg # <<>>
  /\ query.path # NULL

(***************************************************************************)
(* C3.  For a config the validator accepts, every query on a path that     *)
(* begins with '/' ends with a decision: no error and no abort.            *)
(***************************************************************************)
C3_ValidConfigAlwaysDecides ==
  (outcome # "none" /\ query.path # NULL
     /\ svn_repos__authz_config_validate(Deref(authz).cfg) = SVN_NO_ERROR)
    => Decided

(***************************************************************************)
(* C7.  Sections scoped to another repository change no answer: the query  *)
(* ends as it does on the config without them.                             *)
(***************************************************************************)
WithoutSections(config, drop(_)) ==
  SelectSeq(config, LAMBDA sec : ~drop(sec.name))

\* Every way the query can end on config.
QueryResults(config) ==
  {svn_repos_authz_check_access([cfg |-> config], query.repos_name,
                                query.path, query.user,
                                query.required_access, nd, ow) :
     nd \in BOOLEAN, ow \in SUBSET ClearedKeys(config, query.user)}

ScopedElsewhere(name) ==
  NameRepos(name) # NULL /\ Deref(NameRepos(name)) # QueryRepository

C7_OtherReposHaveNoEffect ==
  (outcome # "none")
    => [outcome |-> outcome, root |-> root]
         \in QueryResults(WithoutSections(Deref(authz).cfg, ScopedElsewhere))

\* A grant for repository A from a config that denies the same path in B.
C7_Witness ==
  /\ outcome = "granted"
  /\ query.repos_name = Ptr(ReposA)
  /\ \E sec \in Range(Deref(authz).cfg) :
       /\ NameRepos(sec.name) = Ptr(ReposB)
       /\ sec.entries[1].value = <<>>
  /\ query.path # NULL
  /\ NamePath(Deref(authz).cfg[1].name) = Deref(query.path)

(***************************************************************************)
(* C8.  With repos_name absent only sections without a "repo:" prefix      *)
(* contribute: every section with a ':' before its path is ignored.        *)
(***************************************************************************)
HasPrefix(name) == NameRepos(name) # NULL
HasNamedPrefix(name) == NameRepos(name) \notin {NULL, Ptr(<<>>)}

C8_AbsentReposIgnoresPrefixed ==
  (outcome # "none" /\ query.repos_name = NULL)
    => [outcome |-> outcome, root |-> root]
         \in QueryResults(WithoutSections(Deref(authz).cfg, HasPrefix))

\* C8 as amended: with repos_name absent the query ends as it does for
\* the empty repository name, and every section with a non-empty name
\* before its ':' is ignored; a section ":/path" is not.
C8_AbsentReposIgnoresNamed ==
  (outcome # "none" /\ query.repos_name = NULL)
    => /\ [outcome |-> outcome, root |-> root]
            \in QueryResults(WithoutSections(Deref(authz).cfg,
                                             HasNamedPrefix))
       /\ [outcome |-> outcome, root |-> root]
            \in {svn_repos_authz_check_access(Deref(authz), Ptr(<<>>),
                   query.path, query.user, query.required_access, nd, ow) :
                 nd \in BOOLEAN,
                 ow \in SUBSET ClearedKeys(Deref(authz).cfg, query.user)}

\* A grant with repos_name absent that only a section ":/a" gives, in a
\* config that also has a section for repository A.
C8_Witness ==
  /\ outcome = "granted" /\ query.repos_name = NULL /\ query.path # NULL
  /\ \E sec \in Range(Deref(authz).cfg) : NameRepos(sec.name) = Ptr(ReposA)
  /\ \E sec \in Range(Deref(authz).cfg) : NameRepos(sec.name) = Ptr(<<>>)
  /\ \A sec \in Range(Deref(authz).cfg) : HasPrefix(sec.name)

(***************************************************************************)
(* C5.  A section that applies to the repository assigns to its path the   *)
(* union of the rights of the entries that match (key in the identity set  *)
(* XOR leading '~'); with a matching entry it sets the access even when    *)
(* the union is empty, without one the path keeps inheriting.              *)
(***************************************************************************)
RefValueRights(value) ==
  {x \in {"read", "write"} :
     (x = "read" /\ "r" \in Range(value))
     \/ (x = "write" /\ "w" \in Range(value))}

RefRights(sec) ==
  UNION {RefValueRights(e.value) :
           e \in {e \in Range(sec.entries) :
                    EntryMatches(e, QueryIdentities)}}

SectionSegs(sec) == svn_cstring_split(NamePath(sec.name), "/", FALSE)

\* sec is the last of the applicable sections that name its path.
IsLastForPath(sec) ==
  LET config == Deref(authz).cfg
      idx(t) == CHOOSE i \in 1..Len(config) : config[i] = t
  IN \A t \in ApplicableSections :
       NamePath(t.name) = NamePath(sec.name) => idx(t) <= idx(sec)

C5_SectionRightsAreUnionOfMatches ==
  (outcome \notin {"none", "abort"})
    => \A sec \in {t \in Range(Deref(authz).cfg) :
                     AppliesToRepos(t.name, QueryRepository)} :
         LET segs == SectionSegs(sec)
             node == NodeAt(Tree, segs)
             match == has_matching_rule(Deref(authz).cfg, sec.name,
                                        QueryIdentities)
         IN IF sec \in ApplicableSections
            THEN /\ match = [found |-> TRUE, access |-> RefRights(sec)]
                 /\ IsLastForPath(sec)
                      => /\ node # NULL
                         /\ Deref(node).access
                              = AccessRecord(RefRights(sec))
            ELSE /\ ~match.found
                 /\ (\A t \in ApplicableSections :
                       NamePath(t.name) # NamePath(sec.name))
                      => /\ segs # <<>>
                           => /\ node # NULL => Deref(node).access = NULL
                              /\ EffectiveRights(Tree, segs)
                                   = EffectiveRights(Tree,
                                       SubSeq(segs, 1, Len(segs) - 1))
                         /\ segs = <<>>
                           => Deref(node).access
                                = AccessRecord(svn_authz_none)

\* A grant of read and write from two entries of one section, one of them
\* inverted, none of which grants both.
C5_Witness ==
  /\ outcome = "granted" /\ query.path # NULL
  /\ Required = {"read", "write"}
  /\ \E sec \in ApplicableSections :
       /\ SectionSegs(sec) = QuerySegs(Deref(query.path))
       /\ \E e \in Range(sec.entries) :
            Head(e.name) = "~" /\ EntryMatches(e, QueryIdentities)
       /\ \A e \in Range(sec.entries) :
            RefValueRights(e.value) # {"read", "write"}

(***************************************************************************)
(* C6.  For an authenticated user U the identity set is U, the aliases of  *)
(* U with '&', the groups U belongs to (by name, by alias or through       *)
(* nested groups) with '@', "*" and "$authenticated", and nothing else.    *)
(***************************************************************************)
RefAliases(config, user) ==
  {<<"&">> \o e.name :
     e \in {e \in Range(SectionEntries(config, SECTION_ALIASES)) :
              e.value = user}}

\* The groups that list a member of names.
GroupsListing(config, names) ==
  {<<"@">> \o e.name :
     e \in {e \in Range(SectionEntries(config, SECTION_GROUPS)) :
              Range(svn_cstring_split(e.value, ",", TRUE)) \cap names # {}}}

\* The least set that holds names and the groups listing one of its members.
RECURSIVE GroupClosure(_, _)
GroupClosure(config, names) ==
  LET more == names \cup GroupsListing(config, names)
  IN IF more = names THEN names ELSE GroupClosure(config, more)

RefIdentities(config, user) ==
  GroupClosure(config, {user} \cup RefAliases(config, user))
    \cup {STAR, TOKEN_AUTHENTICATED}

C6_MembershipsAreTheClosure ==
  (outcome # "none" /\ query.user # NULL)
    => get_memberships(Deref(authz).cfg, query.user)
         = RefIdentities(Deref(authz).cfg, Deref(query.user))

\* A user who is in g only through the alias x and the nesting of h in g,
\* and whom the rule for @g grants read.
C6_Witness ==
  /\ outcome = "granted" /\ query.user = Ptr(UserU)
  /\ Required = {"read"}
  /\ svn_config_get(Deref(authz).cfg, SECTION_GROUPS, GroupH)
       = Ptr(<<"&">> \o AliasX)
  /\ svn_config_get(Deref(authz).cfg, SECTION_GROUPS, GroupG)
       = Ptr(<<"@">> \o GroupH)

(***************************************************************************)
(* C11.  For a validated config, reordering the entries inside the         *)
(* sections or reordering the sections gives the same compiled tree and    *)
(* the same answer to the query.                                           *)
(***************************************************************************)
\* The sequences with the elements of q in another order.
PermsOfSeq(q) ==
  {[i \in 1..Len(q) |-> q[f[i]]] : f \in Permutations(1..Len(q))}

\* The section with its entries in another order.
SectionPerms(sec) ==
  {[sec EXCEPT !.entries = es] : es \in PermsOfSeq(sec.entries)}

\* The configs with the sections of config, and the entries of each, in
\* another order.
Reordered(config) ==
  UNION {{c \in [1..Len(p) -> UNION {SectionPerms(p[i]) : i \in 1..Len(p)}] :
            \A i \in 1..Len(p) : c[i] \in SectionPerms(p[i])} :
         p \in PermsOfSeq(config)}

C11_OrderIndependent ==
  (outcome # "none"
     /\ svn_repos__authz_config_validate(Deref(authz).cfg) = SVN_NO_ERROR)
    => \A c \in Reordered(Deref(authz).cfg) :
         QueryResults(c) = QueryResults(Deref(authz).cfg)

(***************************************************************************)
(* C12.  A config whose [groups] section has a membership cycle fails      *)
(* validation with SVN_ERR_AUTHZ_INVALID_CONFIG; the walk from any group   *)
(* that reaches a cycle ends with that error, and a circular-dependency    *)
(* error names two groups of one cycle.                                    *)
(***************************************************************************)
DefinedGroups(config) ==
  {e.name : e \in Range(SectionEntries(config, SECTION_GROUPS))}

\* The groups that the definition of group lists as "@name".
SubGroups(config, group) ==
  {Tail(m) : m \in {m \in Range(svn_cstring_split(
                                  Deref(svn_config_get(config, SECTION_GROUPS,
                                                       group)), ",", TRUE)) :
                      m[1] = "@"}}

\* The groups reached from the groups of from along one or more "@"
\* references out of defined groups.
RECURSIVE ReachedFrom(_, _, _)
ReachedFrom(config, from, seen) ==
  LET next == UNION {SubGroups(config, g) :
                       g \in from \cap DefinedGroups(config)}
  IN IF next \subseteq seen THEN seen
     ELSE ReachedFrom(config, next \ seen, seen \cup next)

Reaches(config, group, other) == other \in ReachedFrom(config, {group}, {})
OnCycle(config, group) ==
  group \in DefinedGroups(config) /\ Reaches(config, group, group)
HasCycle(config) == \E g \in DefinedGroups(config) : OnCycle(config, g)

\* Every "@" reference reached from group names a defined group.
RefsDefinedFrom(config, group) ==
  ReachedFrom(config, {group}, {}) \subseteq DefinedGroups(config)

C12_CyclesAreRejected ==
  /\ HasCycle(cfg)
       => svn_repos__authz_config_validate(cfg).code
            = "SVN_ERR_AUTHZ_INVALID_CONFIG"
  /\ \A g \in DefinedGroups(cfg) :
       LET err == authz_group_walk(cfg, g, {})
       IN /\ (\E c \in ReachedFrom(cfg, {g}, {}) \cup {g} : OnCycle(cfg, c))
               => /\ err.code = "SVN_ERR_AUTHZ_INVALID_CONFIG"
                  /\ RefsDefinedFrom(cfg, g)
                       => err.what = "circular dependency"
          /\ err.what = "circular dependency"
               => /\ OnCycle(cfg, err.name) /\ OnCycle(cfg, err.group)
                  /\ Reaches(cfg, err.name, err.group)
                  /\ err.name \in SubGroups(cfg, err.group)
  /\ load_err # SVN_NO_ERROR => load_err = svn_repos__authz_config_validate(cfg)

\* A load that failed on a cycle through three groups.
C12_Witness ==
  /\ load_err # SVN_NO_ERROR /\ authz = NULL
  /\ load_err.what = "circular dependency"
  /\ \E x \in DefinedGroups(cfg) :
       /\ x \notin {load_err.name, load_err.group}
       /\ load_err.name # load_err.group
       /\ Reaches(cfg, load_err.name, x) /\ Reaches(cfg, x, load_err.group)
       /\ OnCycle(cfg, x)
  /\ \A g \in DefinedGroups(cfg) :
       Cardinality(SubGroups(cfg, g)) = 1

(***************************************************************************)
(* C13.  A config in which a group member list or a rule key (inverted or  *)
(* not) refers to an undefined group or alias fails validation with        *)
(* SVN_ERR_AUTHZ_INVALID_CONFIG; plain user names are accepted.            *)
(***************************************************************************)
DefinedAliases(config) ==
  {e.name : e \in Range(SectionEntries(config, SECTION_ALIASES))}

\* ref is "@G" with G undefined or "&A" with A undefined.
IsUndefinedRef(config, ref) ==
  /\ ref # <<>>
  /\ \/ ref[1] = "@" /\ Tail(ref) \notin DefinedGroups(config)
     \/ ref[1] = "&" /\ Tail(ref) \notin DefinedAliases(config)

\* The key without its leading '~', if it has one.
KeyRef(key) == IF key # <<>> /\ key[1] = "~" THEN Tail(key) ELSE key

IsPlainName(ref) == ref # <<>> /\ ref[1] \notin {"@", "&", "$", "~", "*"}

GroupMembers(e) == Range(svn_cstring_split(e.value, ",", TRUE))

PathSections(config) ==
  {sec \in Range(config) : sec.name \notin {SECTION_GROUPS, SECTION_ALIASES}}

RuleEntries(config) == UNION {Range(sec.entries) : sec \in PathSections(config)}

HasUndefinedRef(config) ==
  \/ \E e \in Range(SectionEntries(config, SECTION_GROUPS)) :
       \E m \in GroupMembers(e) : IsUndefinedRef(config, m)
  \/ \E e \in RuleEntries(config) : IsUndefinedRef(config, KeyRef(e.name))

ValidateBaton == [config |-> cfg, err |-> SVN_NO_ERROR]

C13_UndefinedRefsAreRejected ==
  /\ HasUndefinedRef(cfg)
       => svn_repos__authz_config_validate(cfg).code
            = "SVN_ERR_AUTHZ_INVALID_CONFIG"
  /\ \A e \in RuleEntries(cfg) :
       LET r == authz_validate_rule(e.name, e.value, ValidateBaton)
       IN /\ IsUndefinedRef(cfg, KeyRef(e.name))
               => ~r.keep /\ r.baton.err.code = "SVN_ERR_AUTHZ_INVALID_CONFIG"
          /\ (IsPlainName(e.name) /\ BadRuleChar(e.value) = 0)
               => r = [keep |-> TRUE, baton |-> ValidateBaton]
  /\ \A e \in Range(SectionEntries(cfg, SECTION_GROUPS)) :
       LET err == authz_group_walk(cfg, e.name, {})
       IN /\ (\E m \in GroupMembers(e) : IsUndefinedRef(cfg, m))
               => err.code = "SVN_ERR_AUTHZ_INVALID_CONFIG"
          /\ (\A m \in GroupMembers(e) : IsPlainName(m))
               => err = SVN_NO_ERROR
  /\ load_err # SVN_NO_ERROR => load_err = svn_repos__authz_config_validate(cfg)

\* A load that failed only because an inverted key names an undefined
\* group.
C13_Witness ==
  /\ load_err.what = "undefined group" /\ authz = NULL
  /\ load_err.name = <<"~", "@">> \o GroupG
  /\ DefinedGroups(cfg) = {}
  /\ \A e \in RuleEntries(cfg) : BadRuleChar(e.value) = 0

(***************************************************************************)
(* C14.  A rule entry is rejected with SVN_ERR_AUTHZ_INVALID_CONFIG when   *)
(* its key begins with two '~', is "~*", begins (after one '~') with '$'   *)
(* without being $anonymous or $authenticated, or when its value has a     *)
(* character other than 'r', 'w' and whitespace; an entry without these    *)
(* defects and without an undefined reference is accepted.                 *)
(***************************************************************************)
HasBadValue(value) ==
  \E i \in 1..Len(value) : value[i] \notin {"r", "w", " ", "\t", "\n", "\r"}

HasKeyDefect(key) ==
  \/ Len(key) >= 2 /\ key[1] = "~" /\ key[2] = "~"
  \/ key = <<"~", "*">>
  \/ /\ KeyRef(key) # <<>>
     /\ KeyRef(key)[1] = "$"
     /\ KeyRef(key) \notin {TOKEN_ANONYMOUS, TOKEN_AUTHENTICATED}

HasDefect(e) == HasKeyDefect(e.name) \/ HasBadValue(e.value)

C14_DefectiveEntriesAreRejected ==
  /\ \A e \in RuleEntries(cfg) :
       LET r == authz_validate_rule(e.name, e.value, ValidateBaton)
       IN /\ HasDefect(e)
               => ~r.keep /\ r.baton.err.code = "SVN_ERR_AUTHZ_INVALID_CONFIG"
          /\ (~HasDefect(e) /\ ~IsUndefinedRef(cfg, KeyRef(e.name)))
               => r = [keep |-> TRUE, baton |-> ValidateBaton]
  /\ (\E e \in RuleEntries(cfg) : HasDefect(e))
       => svn_repos__authz_config_validate(cfg).code
            = "SVN_ERR_AUTHZ_INVALID_CONFIG"
  /\ (/\ \A e \in RuleEntries(cfg) :
            ~HasDefect(e) /\ ~IsUndefinedRef(cfg, KeyRef(e.name))
      /\ \A e \in Range(SectionEntries(cfg, SECTION_GROUPS)) :
           authz_group_walk(cfg, e.name, {}) = SVN_NO_ERROR)
       => svn_repos__authz_config_validate(cfg) = SVN_NO_ERROR
  /\ load_err # SVN_NO_ERROR => load_err = svn_repos__authz_config_validate(cfg)

\* A load that failed on an inverted unknown token with a valid value.
C14_Witness ==
  /\ load_err.what = "unrecognized token" /\ authz = NULL
  /\ load_err.name = <<"~">> \o TOKEN_OTHER
  /\ \A e \in RuleEntries(cfg) : ~HasBadValue(e.value)

(***************************************************************************)
(* The sources of the last load: what the loader read as the rules and as  *)
(* the groups, each [err, cfg].                                            *)
(***************************************************************************)
LoadRetrieve(path) ==
  IF load.accept_urls
  THEN svn_repos__retrieve_config(World(cfg, groups), path, load.must_exist)
  ELSE svn_config_read3(World(cfg, groups), path, load.must_exist)

IsParse == load.op = "svn_repos_authz_parse"
IsRead == load.op = "svn_repos__authz_read"

RulesSource ==
  IF IsParse THEN svn_config_parse(load.stream) ELSE LoadRetrieve(load.path)

GroupsSupplied ==
  \/ IsParse /\ load.groups_stream # NULL
  \/ IsRead /\ load.groups_path # NULL

GroupsSource ==
  IF IsParse THEN svn_config_parse(Deref(load.groups_stream))
  ELSE LoadRetrieve(Deref(load.groups_path))

\* The rules config with the group entries of the groups config as its
\* [groups] section.
Merged(config, groups_config) ==
  IF SectionEntries(groups_config, SECTION_GROUPS) = <<>> THEN config
  ELSE config \o <<Section(SECTION_GROUPS,
                           SectionEntries(groups_config, SECTION_GROUPS))>>

QueryAnswers(config) ==
  {svn_repos_authz_check_access([cfg |-> config], query.repos_name,
                                query.path, query.user,
                                query.required_access, ndebug, ow) :
     ndebug \in BOOLEAN, ow \in SUBSET ClearedKeys(config, query.user)}

\* C15: a load with a groups source fails with
\* SVN_ERR_AUTHZ_INVALID_CONFIG and copies no group when the rules config
\* has a [groups] section; when it has none, the config that is validated
\* and queried is the rules config with exactly the group entries of the
\* groups source as its [groups] section.
C15_GroupsSourceIsExclusive ==
  (/\ (IsParse \/ IsRead) /\ GroupsSupplied
   /\ RulesSource.err = SVN_NO_ERROR
   /\ GroupsSource.err = SVN_NO_ERROR)
    => LET config == Deref(RulesSource.cfg)
           groups_config == Deref(GroupsSource.cfg)
       IN IF svn_config_has_section(config, SECTION_GROUPS)
          THEN /\ load_err.code = "SVN_ERR_AUTHZ_INVALID_CONFIG"
               /\ authz = NULL
               /\ authz_copy_groups(config, groups_config).config = config
          ELSE /\ load_err = svn_repos__authz_config_validate(
                                Merged(config, groups_config))
               /\ load_err = SVN_NO_ERROR
                    => authz = Ptr([cfg |-> Merged(config, groups_config)])
               /\ load_err # SVN_NO_ERROR => authz = NULL
               /\ outcome # "none"
                    => [outcome |-> outcome, root |-> root]
                         \in QueryAnswers(Merged(config, groups_config))

\* A rule for @g whose group only the groups source defines, loaded and
\* then granting to the member of g.
C15_Witness ==
  /\ GroupsSupplied
  /\ ~svn_config_has_section(cfg, SECTION_GROUPS)
  /\ SectionEntries(cfg, PathOf(<<>>)) = <<Entry(<<"@">> \o GroupG, <<"r">>)>>
  /\ authz # NULL
  /\ SectionEntries(Deref(authz).cfg, SECTION_GROUPS)
       = <<Entry(GroupG, UserU)>>
  /\ query.user = Ptr(UserU)
  /\ outcome = "granted"

\* C16: a query with a path that does not begin with '/' ends with the
\* assertion's error and without a decision; a query with a path that
\* begins with '/' never ends with that error.
C16_PathMustBeginWithSlash ==
  (outcome # "none" /\ query.path # NULL)
    => (outcome = "assertion"
          <=> (Deref(query.path) = <<>> \/ Deref(query.path)[1] # "/"))

\* What the loader has to read before it validates.
SourcesRead ==
  /\ RulesSource.err = SVN_NO_ERROR
  /\ GroupsSupplied => GroupsSource.err = SVN_NO_ERROR

MergeConflict ==
  /\ GroupsSupplied
  /\ svn_config_has_section(Deref(RulesSource.cfg), SECTION_GROUPS)

\* The config that reaches validation when nothing failed before it.
ConfigToValidate ==
  IF GroupsSupplied
  THEN Merged(Deref(RulesSource.cfg), Deref(GroupsSource.cfg))
  ELSE Deref(RulesSource.cfg)

\* C17: svn_repos_authz_parse and svn_repos__authz_read either return an
\* error and leave *authz_p unset, or return no error and an authz object
\* whose config passes svn_repos__authz_config_validate; a failure to read
\* the rules or the groups source, to merge the groups or to validate is
\* the error returned.
C17_LoadIsAllOrNothing ==
  (IsParse \/ IsRead)
    => /\ (load_err = SVN_NO_ERROR) <=> (authz # NULL)
       /\ authz # NULL
            => svn_repos__authz_config_validate(Deref(authz).cfg)
                 = SVN_NO_ERROR
       /\ RulesSource.err # SVN_NO_ERROR => load_err = RulesSource.err
       /\ (/\ RulesSource.err = SVN_NO_ERROR
           /\ GroupsSupplied
           /\ GroupsSource.err # SVN_NO_ERROR)
            => load_err = GroupsSource.err
       /\ (SourcesRead /\ MergeConflict)
            => /\ load_err.code = "SVN_ERR_AUTHZ_INVALID_CONFIG"
               /\ load_err.what
                    = IF IsRead
                      THEN "error reading authz file with groups file"
                      ELSE "groups in authz file"
               /\ IsRead => load_err.child.what = "groups in authz file"
       /\ (SourcesRead /\ ~MergeConflict)
            => load_err = svn_repos__authz_config_validate(ConfigToValidate)

\* A read whose rules and groups were both retrieved and merged, and whose
\* merged config the validator rejected.
C17_Witness ==
  /\ IsRead /\ GroupsSupplied /\ SourcesRead /\ ~MergeConflict
  /\ svn_repos__authz_config_validate(Deref(RulesSource.cfg)) = SVN_NO_ERROR
  /\ load_err.code = "SVN_ERR_AUTHZ_INVALID_CONFIG"
  /\ authz = NULL

(***************************************************************************)
(* Retrieval through a URL, stated on the world.                           *)
(***************************************************************************)
IsRetrieve == load.op = "svn_repos__retrieve_config"

\* The path of a file URL after the scheme (a dirent), if it is one.
IsFileUrl(path) ==
  /\ Len(path) > Len(FILE_SCHEME)
  /\ SubSeq(path, 1, Len(FILE_SCHEME)) = FILE_SCHEME

UrlDirent(path) == StrFrom(path, Len(FILE_SCHEME))

\* The repository roots that contain the dirent.
ContainingRepos(world, dirent) ==
  {r \in world.repos :
     \E rest \in {<<>>} \cup {StrFrom(dirent, Len(r))} :
       /\ dirent = r \o rest
       /\ rest = <<>> \/ rest[1] = "/"}

\* The kind of what the dirent denotes in the repository r: "root",
\* "svn_node_none", "svn_node_dir" or "svn_node_file".
KindIn(world, r, dirent) ==
  IF dirent = r THEN "root"
  ELSE IF <<r, StrFrom(dirent, Len(r))>> \in DOMAIN world.nodes
  THEN world.nodes[<<r, StrFrom(dirent, Len(r))>>].kind
  ELSE "svn_node_none"

\* C18 (as stated): a retrieval through a file URL fails with
\* RA_LOCAL_REPOS_NOT_FOUND when no repository contains the path, fails
\* with ILLEGAL_TARGET when the path in the repository is the root, a
\* directory or a missing node, and returns a config only for a file.
C18_RetrievalNeedsAFile ==
  (IsRetrieve /\ IsFileUrl(load.path))
    => LET world == World(cfg, groups)
           dirent == UrlDirent(load.path)
           repos == ContainingRepos(world, dirent)
       IN /\ repos = {}
               => /\ retrieved.err.code = "SVN_ERR_RA_LOCAL_REPOS_NOT_FOUND"
                  /\ retrieved.cfg = NULL
          /\ \A r \in repos :
               /\ KindIn(world, r, dirent) # "svn_node_file"
                    => /\ retrieved.err.code = "SVN_ERR_ILLEGAL_TARGET"
                       /\ retrieved.cfg = NULL
               /\ retrieved.cfg # NULL
                    => KindIn(world, r, dirent) = "svn_node_file"

\* C18 (amended): the same, a missing node being an error only when
\* must_exist is set; without must_exist a missing node gives an empty
\* config and no error.
C18_RetrievalNeedsAFileIfMustExist ==
  (IsRetrieve /\ IsFileUrl(load.path))
    => LET world == World(cfg, groups)
           dirent == UrlDirent(load.path)
           repos == ContainingRepos(world, dirent)
       IN /\ repos = {}
               => /\ retrieved.err.code = "SVN_ERR_RA_LOCAL_REPOS_NOT_FOUND"
                  /\ retrieved.cfg = NULL
          /\ \A r \in repos :
               LET kind == KindIn(world, r, dirent)
               IN /\ (\/ kind \in {"root", "svn_node_dir"}
                      \/ kind = "svn_node_none" /\ load.must_exist)
                       => /\ retrieved.err.code = "SVN_ERR_ILLEGAL_TARGET"
                          /\ retrieved.cfg = NULL
                  /\ (kind = "svn_node_none" /\ ~load.must_exist)
                       => retrieved = [err |-> SVN_NO_ERROR, cfg |-> Ptr(<<>>)]
                  /\ kind = "svn_node_file"
                       => \/ /\ retrieved.err # SVN_NO_ERROR
                             /\ retrieved.cfg = NULL
                          \/ retrieved =
                               [err |-> SVN_NO_ERROR,
                                cfg |-> Ptr(world.nodes[
                                  <<r, StrFrom(dirent, Len(r))>>].stream.doc)]

\* A retrieval with must_exist of a node that is not in the youngest
\* revision.
C18_Witness ==
  /\ IsRetrieve /\ load.must_exist
  /\ load.path = FILE_SCHEME \o ReposRoot \o FsNone
  /\ retrieved.err.code = "SVN_ERR_ILLEGAL_TARGET"
  /\ retrieved.err.what = "path not found"

(***************************************************************************)
(* The anonymous user.                                                     *)
(***************************************************************************)
\* The keys that apply to the anonymous user, told from the key alone.
AnonMatches(key) ==
  IF key # <<>> /\ key[1] = "~"
  THEN Tail(key) \notin {STAR, TOKEN_ANONYMOUS}
  ELSE key \in {STAR, TOKEN_ANONYMOUS}

SectionA == PathOf(<<<<"a">>>>)

AnonBaton ==
  [memberships |-> get_memberships(cfg, NULL), found |-> FALSE,
   access |-> svn_authz_none]

\* C19: the identity set of the anonymous user is {"*", "$anonymous"}
\* whatever [aliases] and [groups] hold; a rule applies to an anonymous
\* query exactly if its key is "*" or "$anonymous", or is inverted and
\* neither "~*" nor "~$anonymous", and the tree compiled for the query has
\* the rights of exactly those rules.
C19_AnonymousIdentity ==
  /\ get_memberships(cfg, NULL) = {STAR, TOKEN_ANONYMOUS}
  /\ \A e \in Range(SectionEntries(cfg, SectionA)) :
       process_rule(e.name, e.value, AnonBaton).baton.found
         = AnonMatches(e.name)
  /\ (outcome \notin {"none", "abort"} /\ query.user = NULL)
       => LET matched == {e \in Range(SectionEntries(cfg, SectionA)) :
                            AnonMatches(e.name)}
              sub_nodes == Deref(root).sub_nodes
          IN IF matched = {} THEN <<"a">> \notin DOMAIN sub_nodes
             ELSE /\ <<"a">> \in DOMAIN sub_nodes
                  /\ sub_nodes[<<"a">>].access
                       = AccessRecord(
                           UNION {ValueRights(e.value) : e \in matched})

\* An anonymous query on a config whose group g lists "*" and
\* "$anonymous": the rule for @g does not apply and the rule for ~u does.
C19_Witness ==
  /\ query.user = NULL /\ query.required_access = svn_authz_write
  /\ outcome = "granted"
  /\ SectionEntries(cfg, SECTION_GROUPS)
       = <<Entry(GroupG, JoinMembers(<<STAR, TOKEN_ANONYMOUS>>))>>
  /\ SectionEntries(cfg, SectionA)
       = <<Entry(<<"@">> \o GroupG, <<"r">>),
           Entry(<<"~">> \o UserU, <<"w">>)>>
  /\ Deref(root).sub_nodes[<<"a">>].access = AccessRecord(svn_authz_write)

(***************************************************************************)
(* Concurrent queries.                                                     *)
(***************************************************************************)
\* The tree and the answer of the query q run alone on the authz object.
AloneTree(az, q, ndebug, overwritten) ==
  create_user_authz(az.cfg,
                    IF q.repos_name = NULL THEN <<>> ELSE Deref(q.repos_name),
                    q.user, ndebug, overwritten)

AloneOutcome(az, q, ndebug, overwritten) ==
  svn_repos_authz_check_access(az, q.repos_name, q.path, q.user,
                               q.required_access, ndebug, overwritten).outcome

SubtreeRights(tree, p) ==
  {EffectiveRights(tree, p \o q) : q \in NodePaths(Deref(NodeAt(tree, p)))}

\* C21: in the compiled tree every node's min_rights is the intersection
\* and its max_rights the union of the effective rights of the node and of
\* every node of its whole subtree, so min_rights is within the node's
\* effective rights and those within max_rights.
C21_MinMaxAggregateSubtree ==
  root # NULL
    => \A p \in NodePaths(Tree) :
         LET node == Deref(NodeAt(Tree, p))
             rights == SubtreeRights(Tree, p)
         IN /\ node.min_rights = {x \in UNION rights : \A r \in rights : x \in r}
            /\ node.max_rights = UNION rights
            /\ node.min_rights \subseteq EffectiveRights(Tree, p)
            /\ EffectiveRights(Tree, p) \subseteq node.max_rights

\* A root without rights whose grandchild /a/b alone grants read and
\* write, its parent /a having no access of its own.
C21_Witness ==
  /\ root # NULL
  /\ NodeAt(Tree, <<<<"a">>, <<"b">>>>) # NULL
  /\ Tree.sub_nodes[<<"a">>].access = NULL
  /\ EffectiveRights(Tree, <<>>) = svn_authz_none
  /\ Tree.max_rights = svn_authz_read \cup svn_authz_write
  /\ Tree.sub_nodes[<<"a">>].min_rights = svn_authz_none

(***************************************************************************)
(* Paths that are not normalized.                                          *)
(***************************************************************************)
\* The path with every run of '/' replaced by one '/' and without
\* trailing '/' (the path "/" excepted).
RECURSIVE CollapseRuns(_)
CollapseRuns(path) ==
  IF Len(path) < 2 THEN path
  ELSE IF path[1] = "/" /\ path[2] = "/" THEN CollapseRuns(Tail(path))
  ELSE <<path[1]>> \o CollapseRuns(Tail(path))

Normalized(path) ==
  LET c == CollapseRuns(path)
  IN IF Len(c) > 1 /\ c[Len(c)] = "/" THEN SubSeq(c, 1, Len(c) - 1) ELSE c

\* C22: a query on a path with trailing '/' or with runs of '/' is
\* answered, recursive or not, as the query on the path with single '/'
\* and no trailing '/'.
C22_LookupNormalizesPath ==
  (Decided /\ query.path # NULL)
    => \E ndebug \in BOOLEAN :
         \E ow \in SUBSET ClearedKeys(Deref(authz).cfg, query.user) :
           outcome = svn_repos_authz_check_access(Deref(authz),
                       query.repos_name, Ptr(Normalized(Deref(query.path))),
                       query.user, query.required_access, ndebug, ow).outcome

\* "/a//b/" granted by the rule of /a/b, below a root and an /a that
\* grant nothing.
C22_Witness ==
  /\ query.path = Ptr(<<"/", "a", "/", "/", "b", "/">>)
  /\ outcome = "granted"
  /\ EffectiveRights(Tree, <<<<"a">>>>) = svn_authz_none
  /\ EffectiveRights(Tree, <<<<"a">>, <<"b">>>>) # svn_authz_none

(***************************************************************************)
(* The first error.                                                        *)
(***************************************************************************)
\* The error of one element examined on its own: a section name, or an
\* entry of a section.
NameError(name) ==
  LET colon == strchr(name, ":")
  IN IF name \notin {SECTION_GROUPS, SECTION_ALIASES}
        /\ ~svn_fspath__is_canonical(IF colon # 0 THEN StrFrom(name, colon)
                                     ELSE name)
     THEN InvalidConfig("non-canonical fspath", name)
     ELSE SVN_NO_ERROR

EntryError(config, section, e) ==
  IF section = SECTION_GROUPS THEN authz_group_walk(config, e.name, {})
  ELSE IF section = SECTION_ALIASES THEN SVN_NO_ERROR
  ELSE authz_validate_rule(e.name, e.value,
                           [config |-> config, err |-> SVN_NO_ERROR]).baton.err

\* The errors of the elements in the order of enumeration: each section's
\* name, then its entries.
RECURSIVE ElementErrors(_, _)
ElementErrors(config, sections) ==
  IF sections = <<>> THEN <<>>
  ELSE <<NameError(Head(sections).name)>>
       \o [i \in 1..Len(Head(sections).entries) |->
            EntryError(config, Head(sections).name, Head(sections).entries[i])]
       \o ElementErrors(config, Tail(sections))

FirstError(errs) ==
  IF \A i \in 1..Len(errs) : errs[i] = SVN_NO_ERROR THEN SVN_NO_ERROR
  ELSE errs[CHOOSE i \in 1..Len(errs) :
              /\ errs[i] # SVN_NO_ERROR
              /\ \A j \in 1..(i - 1) : errs[j] = SVN_NO_ERROR]

\* C23: validation returns the error of the first invalid element in the
\* order of enumeration, whatever elements after it are invalid too, and
\* the loader fails with that error.
C23_FirstErrorIsReported ==
  /\ svn_repos__authz_config_validate(cfg)
       = FirstError(ElementErrors(cfg, cfg))
  /\ IsParse => load_err = FirstError(ElementErrors(cfg, cfg))

\* A load that failed on a double negative in a config that has, after
\* it, an entry and a section with other defects.
C23_Witness ==
  /\ IsParse /\ authz = NULL
  /\ load_err.what = "double negative"
  /\ LET errs == ElementErrors(cfg, cfg)
     IN Cardinality({errs[i].what : i \in 1..Len(errs)}
                      \ {SVN_NO_ERROR.what}) >= 3

(***************************************************************************)
(* The hash of checked groups.                                             *)
(***************************************************************************)
\* C24: in every walk that authz_validate_group starts the hash of
\* checked groups is, at the begin of each call and after each removal,
\* the set of the subgroups on the current path of the recursion, and a
\* [groups] section without a cycle and with defined references only is
\* accepted, also when a group is reached through several parents or
\* listed twice in one member list.
C24_NoFalseCycle ==
  /\ \A g \in DefinedGroups(cfg) :
       /\ GroupWalk(cfg, g, {}, {}).on_path_ok
       /\ (/\ RefsDefinedFrom(cfg, g)
           /\ \A c \in ReachedFrom(cfg, {g}, {}) \cup {g} : ~OnCycle(cfg, c))
            => GroupWalk(cfg, g, {}, {})
                 = [err |-> SVN_NO_ERROR, checked_groups |-> {},
                    on_path_ok |-> TRUE]
  /\ (/\ IsParse
      /\ ~HasCycle(cfg)
      /\ \A g \in DefinedGroups(cfg) : RefsDefinedFrom(cfg, g))
       => load_err = SVN_NO_ERROR /\ authz # NULL

\* A loaded config in which g lists h and k, h lists k twice, and k is a
\* plain group: k is reached three times.
C24_Witness ==
  /\ IsParse /\ authz # NULL
  /\ SubGroups(cfg, GroupG) = {GroupH, GroupK}
  /\ svn_config_get(cfg, SECTION_GROUPS, GroupH)
       = Ptr(JoinMembers(<<<<"@">> \o GroupK, <<"@">> \o GroupK>>))
  /\ svn_config_get(cfg, SECTION_GROUPS, GroupK) = Ptr(UserU)

(***************************************************************************)
(* The work-list of the identity closure.                                  *)
(***************************************************************************)
\* The loop of get_memberships for user, as it ends.
ClosureOf(config, user) ==
  FollowMemberships(
    get_group_memberships(config, get_aliases(config, user)),
    HashOrder(get_aliases(config, user)), 1, get_aliases(config, user))

\* The aliases of user in [aliases].
AliasesOf(config, user) ==
  {e.name : e \in {e \in Range(SectionEntries(config, SECTION_ALIASES)) :
                     e.value = user}}

\* C25: the closure ends, for configs with cyclic groups too; its
\* work-list holds every name once, so the loop ran at most
\* 1 + (aliases of the user) + (groups) times, and the result is what the
\* work-list holds.
C25_ClosureTerminates ==
  \A user \in {UserU, UserV} :
    LET c == ClosureOf(cfg, user)
    IN /\ \A i \in 1..Len(c.tf) : \A j \in 1..Len(c.tf) :
            c.tf[i] = c.tf[j] => i = j
       /\ Len(c.tf) <= 1 + Cardinality(AliasesOf(cfg, user))
                         + Cardinality(DefinedGroups(cfg))
       /\ c.res = Range(c.tf)
       /\ get_memberships(cfg, Ptr(user))
            = c.res \cup {STAR, TOKEN_AUTHENTICATED}

\* A query answered for u on a config that was not validated, whose
\* groups g and k contain each other and whose group h lists u twice.
C25_Witness ==
  /\ load.op = "svn_repos__create_authz"
  /\ Decided /\ query.user = Ptr(UserU)
  /\ OnCycle(cfg, GroupG) /\ OnCycle(cfg, GroupK)
  /\ svn_config_get(cfg, SECTION_GROUPS, GroupH)
       = Ptr(JoinMembers(<<UserU, UserU>>))
  /\ AliasesOf(cfg, UserU) = {AliasX}
  /\ Len(ClosureOf(cfg, UserU).tf) = 5
  /\ ClosureOf(cfg, UserU).res
       = {UserU, <<"&">> \o AliasX, <<"@">> \o GroupH,
          <<"@">> \o GroupK, <<"@">> \o GroupG}

(***************************************************************************)
(* Membership as [groups] and [aliases] declare it.                        *)
(***************************************************************************)
\* The members that the definition of group lists.
MemberTokensOf(config, group) ==
  Range(svn_cstring_split(Deref(svn_config_get(config, SECTION_GROUPS, group)), ",", TRUE))

\* The groups that list user by name or by one of its aliases.
DirectGroups(config, user) ==
  {g \in DefinedGroups(config) :
     \E m \in MemberTokensOf(config, g) :
       \/ m = user /\ m[1] \notin {"@", "&"}
       \/ m[1] = "&" /\ Tail(m) \in AliasesOf(config, user)}

\* The groups of S and the groups that contain one of them, transitively.
RECURSIVE ContainingGroups(_, _)
ContainingGroups(config, S) ==
  LET next == S \cup {g \in DefinedGroups(config) :
                        SubGroups(config, g) \cap S # {}}
  IN IF next = S THEN S ELSE ContainingGroups(config, next)

IsMemberOf(config, user, group) ==
  group \in ContainingGroups(config, DirectGroups(config, user))

\* The key of the one rule of the root section.
RootRuleKey == SectionEntries(cfg, PathOf(<<>>))[1].name

\* C26: for an authenticated user, whatever its name begins with, a rule
\* keyed "@G" applies only if the user is a direct, alias or transitive
\* member of G, and a rule keyed "$anonymous" never applies: the closure
\* holds "@G" only for such groups and never "$anonymous", and the one
\* rule of the root section grants nothing otherwise.
C26_GroupKeysNeedMembership ==
  (Decided /\ query.user # NULL) =>
    LET user == Deref(query.user)
        ids == get_memberships(cfg, query.user)
    IN /\ \A g \in DefinedGroups(cfg) :
            (<<"@">> \o g) \in ids => IsMemberOf(cfg, user, g)
       /\ TOKEN_ANONYMOUS \notin ids
       /\ outcome = "granted" =>
            /\ RootRuleKey # TOKEN_ANONYMOUS
            /\ \A g \in DefinedGroups(cfg) :
                 RootRuleKey = <<"@">> \o g => IsMemberOf(cfg, user, g)

(***************************************************************************)
(* The pools of one query.                                                 *)
(***************************************************************************)
QueryRepositoryName ==
  IF query.repos_name = NULL THEN <<>> ELSE Deref(query.repos_name)

\* C28: no key of the set that get_memberships returned to
\* create_user_authz has its string in a pool that is cleared or destroyed
\* before the sections are enumerated (the only such pool is subpool,
\* which get_memberships is handed as scratch_pool), so the tree is the
\* one that the filter builds from the keys as get_memberships returned
\* them.
C28_IdentityKeysOutliveEnumeration ==
  (Decided /\ authz # NULL)
    => /\ \A key \in get_memberships(Deref(authz).cfg, query.user) :
            KeyPool(Deref(authz).cfg, query.user, key) # "scratch_pool"
       /\ \E ndebug \in BOOLEAN :
            root = create_user_authz(Deref(authz).cfg, QueryRepositoryName,
                                     query.user, ndebug, {}).root

\* The pools that a node and everything below it is allocated in.
RECURSIVE PoolsOf(_)
PoolsOf(node) ==
  {node.alloc.node, node.alloc.segment}
  \cup {Deref(p) : p \in {node.alloc.sub_nodes} \ {NULL}}
  \cup {node.alloc.keys[s] : s \in DOMAIN node.alloc.keys}
  \cup {Deref(a).pool : a \in {node.access} \ {NULL}}
  \cup UNION {PoolsOf(node.sub_nodes[s]) : s \in DOMAIN node.sub_nodes}

\* Every node below node has a hash and a key for each of its sub-nodes.
RECURSIVE HashesMade(_)
HashesMade(node) ==
  /\ DOMAIN node.alloc.keys = DOMAIN node.sub_nodes
  /\ node.sub_nodes # <<>> => node.alloc.sub_nodes # NULL
  /\ \A s \in DOMAIN node.sub_nodes : HashesMade(node.sub_nodes[s])

\* C29: the nodes of the tree that create_user_authz returns, their
\* segment strings, their access records, their sub-node hashes and the
\* keys of these are allocated in result_pool, none in scratch_pool or
\* subpool.
C29_TreeIsInResultPool ==
  root # NULL => PoolsOf(Tree) = {"result_pool"} /\ HashesMade(Tree)

\* A tree with a default access at the root, a node without a rule below
\* it, and a rule two segments down.
C29_Witness ==
  /\ Decided
  /\ Tree.access = AccessRecord(svn_authz_none)
  /\ \E s \in DOMAIN Tree.sub_nodes :
       /\ Tree.sub_nodes[s].access = NULL
       /\ \E t \in DOMAIN Tree.sub_nodes[s].sub_nodes :
            /\ Tree.sub_nodes[s].sub_nodes[t].access # NULL
            /\ Tree.sub_nodes[s].alloc.keys[t] = "result_pool"
  /\ \A sec \in Range(cfg) : sec.name # PathOf(<<>>)

(***************************************************************************)
(* The iteration drivers.                                                  *)
(***************************************************************************)
\* The position of the first element whose callback returns an error, 0
\* when there is none.
FirstFailing(items) ==
  IF \A k \in 1..Len(items) : items[k] = SVN_NO_ERROR THEN 0
  ELSE CHOOSE k \in 1..Len(items) :
         /\ items[k] # SVN_NO_ERROR
         /\ \A j \in 1..(k - 1) : items[j] = SVN_NO_ERROR

\* The elements a driver visits: all, or those up to the first failing.
VisitedCount(items) ==
  IF FirstFailing(items) = 0 THEN Len(items) ELSE FirstFailing(items)

\* C27: both drivers call the callback on the elements in order, up to
\* the first whose callback returns an error and on none after it;
\* *completed is TRUE exactly when no callback returned an error; the
\* driver returns SVN_NO_ERROR when the loop ended without an error or
\* with one whose code is SVN_ERR_ITER_BREAK, and the callback's error
\* otherwise.
C27_IterationStopsAtFirstError ==
  iter.pc # "idle" =>
    LET first == FirstFailing(iter.items)
    IN /\ iter.i <= VisitedCount(iter.items)
       /\ Len(iter.called) = iter.i
       /\ \A k \in 1..iter.i : iter.called[k].item = k
       /\ iter.pc = "returned" =>
            /\ iter.i = VisitedCount(iter.items)
            /\ iter.completed = IF iter.completed_p THEN Ptr(first = 0)
                                ELSE NULL
            /\ iter.ret = IF first = 0 THEN SVN_NO_ERROR
                          ELSE IF iter.items[first].code = "SVN_ERR_ITER_BREAK"
                          THEN SVN_NO_ERROR
                          ELSE iter.items[first]

\* An array of three elements whose second callback fails: two calls, the
\* error returned, *completed FALSE.
C27_Witness ==
  /\ iter.pc = "returned" /\ iter.driver = "svn_iter_apr_array"
  /\ iter.items = <<SVN_NO_ERROR, Error("SVN_ERR_CANCELLED", "callback", <<>>),
                    SVN_NO_ERROR>>
  /\ Len(iter.called) = 2
  /\ iter.ret = Error("SVN_ERR_CANCELLED", "callback", <<>>)
  /\ iter.completed = Ptr(FALSE)

\* C30: in both drivers every callback is handed iterpool, cleared just
\* before the call, so that no pool holds what an earlier callback
\* allocated when the next one runs, and iterpool is destroyed when the
\* driver has returned, however the loop ended.
C30_IterpoolPerCallback ==
  iter.pc # "idle" =>
    /\ \A k \in 1..Len(iter.called) :
         /\ iter.called[k].pool = "iterpool"
         /\ iter.called[k].found = {}
    /\ iter.pool.held = {}
    /\ iter.iterpool.held \subseteq {iter.i}
    /\ iter.pc = "returned" <=> ~iter.iterpool.live

====
